---- MODULE Spec2Model ----
(***************************************************************************)
(* Model of the fond ownership matching engine of arhivare-web-app:        *)
(* name normalisation and similarity scoring (app/crud/fond.py), candidate *)
(* ranking, the create / update / bulk-scan assignment paths               *)
(* (app/api/routes/fonds.py, app/crud/fond.py) and the assignment service  *)
(* (app/services/assignment_service.py).                                   *)
(*                                                                         *)
(* Strings are sequences of one-character strings.  Scores are exact       *)
(* rationals <<num, den>> in lowest terms; for the name lengths and word   *)
(* counts of this model the IEEE-754 results of the Python expressions     *)
(* compare with the thresholds 0.6, 0.7, 0.8 and 0.95 exactly as the       *)
(* rationals do.                                                           *)
(***************************************************************************)
EXTENDS Integers, Sequences, FiniteSets, TLC

VARIABLES users, fonds, last, nameA, nameB, result, phase, calls

vars == <<users, fonds, last, nameA, nameB, result, phase, calls>>

(***************************************************************************)
(* Bounds                                                                  *)
(***************************************************************************)
MaxLen == 5
MaxWords == 2
MaxUsers == 2
MaxFonds == 1
MaxScanFonds == 2
MaxPool == 3
MaxCalls == 2

(***************************************************************************)
(* Characters and Python string primitives                                 *)
(***************************************************************************)
Min(a, b) == IF a <= b THEN a ELSE b
Max(a, b) == IF a >= b THEN a ELSE b

\* str.lower() on the characters that occur in the model
LowerChar(ch) ==
  CASE ch = "A" -> "a"
    [] ch = "B" -> "b"
    [] ch = "C" -> "c"
    [] ch = "D" -> "d"
    [] ch = "E" -> "e"
    [] ch = "H" -> "h"
    [] ch = "L" -> "l"
    [] ch = "R" -> "r"
    [] ch = "S" -> "s"
    [] ch = "T" -> "t"
    [] OTHER -> ch

lower(s) == [i \in DOMAIN s |-> LowerChar(s[i])]

\* \s of the regular expressions and of str.strip() / str.split()
IsSpace(ch) == ch = " "

\* [^\w\s] : every character that is neither a word character nor a space
IsPunct(ch) == ch \in {".", "-", ",", "&"}

RECURSIVE lstrip(_)
lstrip(s) == IF s # <<>> /\ IsSpace(Head(s)) THEN lstrip(Tail(s)) ELSE s

RECURSIVE rstrip(_)
rstrip(s) ==
  IF s # <<>> /\ IsSpace(s[Len(s)]) THEN rstrip(SubSeq(s, 1, Len(s) - 1)) ELSE s

strip(s) == rstrip(lstrip(s))

StartsWith(s, p) == Len(p) <= Len(s) /\ SubSeq(s, 1, Len(p)) = p

\* str.replace(old, '') for a non-empty old: leftmost, non-overlapping
RECURSIVE replace(_, _)
replace(s, old) ==
  IF s = <<>> THEN <<>>
  ELSE IF StartsWith(s, old) THEN replace(SubSeq(s, Len(old) + 1, Len(s)), old)
  ELSE <<Head(s)>> \o replace(Tail(s), old)

\* the operator 'sub in s'
contains(s, sub) ==
  \E i \in 1..(Len(s) - Len(sub) + 1) : SubSeq(s, i, i + Len(sub) - 1) = sub

\* re.sub(r'[^\w\s]', ' ', s)
sub_punct(s) == [i \in DOMAIN s |-> IF IsPunct(s[i]) THEN " " ELSE s[i]]

\* re.sub(r'\s+', ' ', s)
RECURSIVE sub_spaces(_)
sub_spaces(s) ==
  IF s = <<>> THEN <<>>
  ELSE IF IsSpace(Head(s))
       THEN <<" ">> \o sub_spaces(lstrip(s))
       ELSE <<Head(s)>> \o sub_spaces(Tail(s))

\* the first word of a string that starts with a non-space character
RECURSIVE first_word(_)
first_word(s) ==
  IF s = <<>> \/ IsSpace(Head(s)) THEN <<>>
  ELSE <<Head(s)>> \o first_word(Tail(s))

\* str.split(): the whitespace-separated words, in order
RECURSIVE split(_)
split(s) ==
  LET t == lstrip(s)
  IN IF t = <<>> THEN <<>>
     ELSE LET w == first_word(t)
          IN <<w>> \o split(SubSeq(t, Len(w) + 1, Len(t)))

Range(f) == {f[i] : i \in DOMAIN f}

(***************************************************************************)
(* Rational scores                                                         *)
(***************************************************************************)
RECURSIVE GCD(_, _)
GCD(a, b) == IF b = 0 THEN a ELSE GCD(b, a % b)

Frac(n, d) == LET g == GCD(n, d) IN <<n \div g, d \div g>>

Zero == <<0, 1>>
One == <<1, 1>>

GE(x, y) == x[1] * y[2] >= y[1] * x[2]
LT(x, y) == ~GE(x, y)
GT(x, y) == x[1] * y[2] > y[1] * x[2]

FracMin(x, y) == IF GE(x, y) THEN y ELSE x

(***************************************************************************)
(* app/crud/fond.py : calculate_company_similarity                         *)
(***************************************************************************)
Suffixes ==
  << <<" ", "s", "r", "l">>, <<" ", "s", "a">>, <<" ", "s", "c">>,
     <<" ", "l", "t", "d">>, <<" ", "i", "n", "c">>, <<" ", "c", "o", "r", "p">>,
     <<"s", "r", "l">>, <<"s", "a">>, <<"s", "c">> >>

\* the loop 'for suffix in [...]: normalized = normalized.replace(suffix, '').strip()'
RECURSIVE strip_suffixes(_, _)
strip_suffixes(s, i) ==
  IF i > Len(Suffixes) THEN s
  ELSE strip_suffixes(strip(replace(s, Suffixes[i])), i + 1)

normalize_name(name) ==
  LET n0 == strip(lower(name))
      n1 == strip_suffixes(n0, 1)
      n2 == sub_punct(n1)
  IN strip(sub_spaces(n2))

\* "s,": the letter s with comma below, one character
important_words ==
  { <<"b", "r", "a", "s", "o", "v">>, <<"b", "r", "a", "s,", "o", "v">>,
    <<"c", "l", "u", "j">>,
    <<"b", "u", "c", "u", "r", "e", "s", "t", "i">>,
    <<"b", "u", "c", "u", "r", "e", "s,", "t", "i">>,
    <<"t", "i", "m", "i", "s", "o", "a", "r", "a">>,
    <<"t", "i", "m", "i", "s,", "o", "a", "r", "a">>,
    <<"i", "a", "s", "i">>, <<"i", "a", "s,", "i">> }

long_words(s) == {w \in Range(split(s)) : Len(w) > 2}

\* matching_rule with the containment test on non-empty names placed first
matching_rule_containment_first(norm_holder, norm_company) ==
  IF /\ norm_holder # <<>>
     /\ norm_company # <<>>
     /\ (contains(norm_company, norm_holder) \/ contains(norm_holder, norm_company))
  THEN "containment"
  ELSE IF norm_holder = norm_company THEN "exact"
  ELSE "words"

\* matching_rule that looks for the holder inside the company name only
matching_rule_one_way(norm_holder, norm_company) ==
  IF norm_holder = norm_company THEN "exact"
  ELSE IF contains(norm_company, norm_holder) THEN "containment"
  ELSE "words"

\* the precedence of the rules: exact match, then containment, then words
matching_rule(norm_holder, norm_company) ==
  IF norm_holder = norm_company THEN "exact"
  ELSE IF contains(norm_company, norm_holder) \/ contains(norm_holder, norm_company)
       THEN "containment"
  ELSE "words"

\* clamp that returns the sum as it is
clamp_missing(similarity) == similarity

\* return min(similarity, 1.0)
clamp(similarity) == FracMin(similarity, One)

calculate_company_similarity(holder_name, company_name) ==
  LET norm_holder == normalize_name(holder_name)
      norm_company == normalize_name(company_name)
      rule == matching_rule(norm_holder, norm_company)
      min_len == Min(Len(norm_holder), Len(norm_company))
      max_len == Max(Len(norm_holder), Len(norm_company))
      holder_words == long_words(norm_holder)
      company_words == long_words(norm_company)
      common_words == holder_words \cap company_words
      most == Max(Cardinality(holder_words), Cardinality(company_words))
      bonus == Cardinality(common_words \cap important_words)
  IN IF rule = "exact" THEN One
     ELSE IF rule = "containment" THEN Frac(9 * min_len, 10 * max_len)
     ELSE IF holder_words = {} \/ company_words = {} THEN Zero
     ELSE IF common_words = {} THEN Zero
     ELSE clamp(Frac(10 * Cardinality(common_words) + bonus * most, 10 * most))

(***************************************************************************)
(* app/services/assignment_service.py : _normalize_company_name,           *)
(* _calculate_similarity.  The second substitution is read as              *)
(* r'\s+(sc|sa|srl|sra|ltd|llc|inc|corp|corporation)$'.                    *)
(***************************************************************************)
CompanyMarkers ==
  { <<"s", "c">>, <<"s", "a">>, <<"s", "r", "l">>, <<"s", "r", "a">>,
    <<"l", "t", "d">>, <<"l", "l", "c">>, <<"i", "n", "c">>, <<"c", "o", "r", "p">>,
    <<"c", "o", "r", "p", "o", "r", "a", "t", "i", "o", "n">> }

EndsWith(s, p) == Len(p) <= Len(s) /\ SubSeq(s, Len(s) - Len(p) + 1, Len(s)) = p

\* re.sub(r'^(sc|sa|...)\s+', '', s)
sub_leading_marker(s) ==
  LET hits == {m \in CompanyMarkers :
                 /\ StartsWith(s, m)
                 /\ Len(s) > Len(m)
                 /\ IsSpace(s[Len(m) + 1])}
  IN IF hits = {} THEN s
     ELSE LET m == CHOOSE m \in hits : TRUE
          IN lstrip(SubSeq(s, Len(m) + 1, Len(s)))

\* re.sub(r'\s+(sc|sa|...)$', '', s)
sub_trailing_marker(s) ==
  LET hits == {m \in CompanyMarkers :
                 /\ EndsWith(s, m)
                 /\ Len(s) > Len(m)
                 /\ IsSpace(s[Len(s) - Len(m)])}
  IN IF hits = {} THEN s
     ELSE LET m == CHOOSE m \in hits : TRUE
          IN rstrip(SubSeq(s, 1, Len(s) - Len(m)))

\* re.sub(r'[^\w\s]', '', s)
remove_punct(s) == SelectSeq(s, LAMBDA ch : ~IsPunct(ch))

normalize_company_name(name) ==
  IF name = <<>> THEN <<>>
  ELSE LET n0 == strip(lower(name))
           n1 == sub_trailing_marker(sub_leading_marker(n0))
           n2 == remove_punct(n1)
       IN strip(sub_spaces(n2))

service_calculate_similarity(str1, str2) ==
  LET words1 == Range(split(str1))
      words2 == Range(split(str2))
  IN IF str1 = <<>> \/ str2 = <<>> THEN Zero
     ELSE IF str1 = str2 THEN One
     ELSE IF contains(str2, str1) \/ contains(str1, str2) THEN <<4, 5>>
     ELSE IF words1 = {} \/ words2 = {} THEN Zero
     ELSE Frac(Cardinality(words1 \cap words2), Cardinality(words1 \cup words2))

get_match_type(similarity) ==
  IF GE(similarity, <<19, 20>>) THEN "exact"
  ELSE IF GE(similarity, <<4, 5>>) THEN "high"
  ELSE IF GE(similarity, <<3, 5>>) THEN "medium"
  ELSE "low"

(***************************************************************************)
(* The database: users and fonds, indexed by their autoincrement id        *)
(***************************************************************************)
\* owner_id IS NULL; ids start at 1
NoOwner == 0

\* company_name IS NULL
NoName == <<>>

Roles == {"admin", "audit", "client"}

UserIds == 1..Len(users)
FondIds == 1..Len(fonds)

ClientIds == {u \in UserIds : users[u].role = "client"}

(***************************************************************************)
(* The names used by the requests of the application                       *)
(***************************************************************************)
N_abcd == <<"a", "b", "c", "d">>
N_abcde == <<"a", "b", "c", "d", "e">>
N_ABCDE_SA == <<"A", "B", "C", "D", "E", " ", "S", "A">>

N_abc == <<"a", "b", "c">>
N_six_words == <<"a", " ", "b", " ", "c", " ", "d", " ", "e", " ", "f">>

HolderNames == {N_abcd, N_abcde}
FondCompanyNames == {N_abcd}

UserInputs ==
  { [role |-> "client", company_name |-> N_ABCDE_SA],
    [role |-> "client", company_name |-> NoName],
    [role |-> "admin", company_name |-> N_abcde] }

\* holder names that are a part of the company name "ABCDE SA" and score
\* below 0.6 against it
WeakHolderNames == {<<"a", "b">>, N_abc}

CompanyNames == {inp.company_name : inp \in UserInputs} \ {NoName}

\* the names a fond is ranked for and the accounts of the ranked pools
RankTargets == {N_abcde, <<"a", "b", "c", "d", "e", "f">>, N_six_words}

RankInputs ==
  { [role |-> "client", company_name |-> N_ABCDE_SA],
    [role |-> "client", company_name |-> N_abcd],
    [role |-> "client", company_name |-> N_abc],
    [role |-> "client",
     company_name |-> <<"a", " ", "b", " ", "c", " ", "g", " ", "h", " ", "i", " ", "j">>],
    [role |-> "admin", company_name |-> N_abcde] }

RankCompanyNames == {inp.company_name : inp \in RankInputs}

\* calculate_company_similarity on the names above, evaluated once
SimilarityTable ==
  [h \in HolderNames \cup FondCompanyNames \cup RankTargets \cup WeakHolderNames |->
     [c \in CompanyNames \cup RankCompanyNames |-> calculate_company_similarity(h, c)]]

similarity_of(holder_name, company_name) == SimilarityTable[holder_name][company_name]

\* _calculate_similarity on the normalised names above, evaluated once
ServiceSimilarityTable ==
  [f \in FondCompanyNames \cup RankTargets |->
     [c \in CompanyNames \cup RankCompanyNames |->
        service_calculate_similarity(normalize_company_name(f), normalize_company_name(c))]]

service_similarity_of(fond_company, company_name) ==
  ServiceSimilarityTable[fond_company][company_name]

(***************************************************************************)
(* app/crud/fond.py : find_potential_owners_for_holder                     *)
(***************************************************************************)
\* insert_desc that puts an entry in front of the entries with the same similarity
insert_desc_before_equal(sorted, x) ==
  LET k == Cardinality({i \in DOMAIN sorted : GT(sorted[i].similarity, x.similarity)})
  IN SubSeq(sorted, 1, k) \o <<x>> \o SubSeq(sorted, k + 1, Len(sorted))

\* potential_owners.sort(key=similarity, reverse=True): stable, descending
insert_desc(sorted, x) ==
  LET k == Cardinality({i \in DOMAIN sorted : GE(sorted[i].similarity, x.similarity)})
  IN SubSeq(sorted, 1, k) \o <<x>> \o SubSeq(sorted, k + 1, Len(sorted))

RECURSIVE sort_desc(_)
sort_desc(seq) ==
  IF seq = <<>> THEN <<>>
  ELSE insert_desc(sort_desc(SubSeq(seq, 1, Len(seq) - 1)), seq[Len(seq)])

\* clients_query without the filter on the current owner
clients_query_all(us, exclude_current_owner) ==
  SelectSeq([i \in DOMAIN us |-> i], LAMBDA i : us[i].role = "client")

\* db.query(User).filter(User.role == "client") [.filter(User.id != exclude)]
clients_query(us, exclude_current_owner) ==
  SelectSeq([i \in DOMAIN us |-> i],
            LAMBDA i : /\ us[i].role = "client"
                       /\ (exclude_current_owner # NoOwner => i # exclude_current_owner))

\* the dictionary appended for one client
owner_entry(us, holder_name, i) ==
  LET similarity == similarity_of(holder_name, us[i].company_name)
  IN [user_id |-> i,
      company_name |-> us[i].company_name,
      similarity |-> similarity,
      match_type |-> get_match_type(similarity)]

find_potential_owners_for_holder(us, holder_name, exclude_current_owner) ==
  IF holder_name = NoName THEN <<>>
  ELSE LET clients == clients_query(us, exclude_current_owner)
           kept == SelectSeq(clients,
                     LAMBDA i : /\ us[i].company_name # NoName
                                /\ GE(similarity_of(holder_name, us[i].company_name), <<3, 5>>))
       IN sort_desc([k \in DOMAIN kept |-> owner_entry(us, holder_name, kept[k])])

(***************************************************************************)
(* app/api/routes/fonds.py : find_client_by_company_name                   *)
(***************************************************************************)
Prefixes ==
  << <<"s", "r", "l">>, <<"s", "a">>, <<"s", "c">>,
     <<"l", "t", "d">>, <<"i", "n", "c">>, <<"c", "o", "r", "p">> >>

\* for prefix in [...]: name = name.replace(f' {prefix}', '').replace(f'{prefix} ', '')
RECURSIVE strip_prefixes(_, _)
strip_prefixes(s, i) ==
  IF i > Len(Prefixes) THEN s
  ELSE strip_prefixes(replace(replace(s, <<" ">> \o Prefixes[i]), Prefixes[i] \o <<" ">>),
                      i + 1)

\* the first element of a sequence of ids, or NoOwner when it is empty
first_or_none(seq) == IF seq = <<>> THEN NoOwner ELSE seq[1]

find_client_by_company_name(us, company_name) ==
  IF company_name = NoName THEN NoOwner
  ELSE
    LET normalized_name == strip(lower(company_name))
        clients == clients_query(us, NoOwner)
        exact == SelectSeq(clients, LAMBDA i : lower(us[i].company_name) = normalized_name)
        part == SelectSeq(clients,
                  LAMBDA i : /\ us[i].company_name # NoName
                             /\ LET c == strip(lower(us[i].company_name))
                                IN contains(normalized_name, c) \/ contains(c, normalized_name))
        cleaned == strip_prefixes(normalized_name, 1)
        holder_words == Range(split(cleaned))
        words == SelectSeq(clients,
                  LAMBDA i : /\ us[i].company_name # NoName
                             /\ LET client_words ==
                                      Range(split(strip_prefixes(strip(lower(us[i].company_name)), 1)))
                                    common_words == holder_words \cap client_words
                                IN /\ Cardinality(holder_words) >= 2
                                   /\ Cardinality(client_words) >= 2
                                   /\ Cardinality(common_words) >=
                                        Max(1, Min(Cardinality(holder_words),
                                                   Cardinality(client_words)) \div 2))
    IN IF exact # <<>> THEN exact[1]
       ELSE IF part # <<>> THEN part[1]
       ELSE first_or_none(words)

(***************************************************************************)
(* Inputs and outcomes of the requests                                     *)
(***************************************************************************)
OwnerArgs == {NoOwner} \cup (1..MaxUsers)

\* a FondUpdate body: model_dump(exclude_unset=True) keeps the fields that are set;
\* an unset field is carried as its default
FondUpdates(holder_names) ==
  { p \in [company_set : BOOLEAN, company_name : {NoName, N_abcde},
           holder_set : BOOLEAN, holder_name : holder_names \cup {NoName},
           active_set : BOOLEAN, active : BOOLEAN,
           owner_set : BOOLEAN, owner_id : OwnerArgs] :
      /\ ~p.company_set => p.company_name = NoName
      /\ ~p.holder_set => p.holder_name = NoName
      /\ ~p.active_set => p.active = TRUE
      /\ ~p.owner_set => p.owner_id = NoOwner }

\* the bodies that set any of the fields
UpdatePayloads == FondUpdates(HolderNames)

\* the bodies that set the holder name, the owner, or both
Payloads == {p \in UpdatePayloads : ~p.company_set /\ ~p.active_set}

\* the FondUpdate bodies whose holder name is a weak one
WeakPayloads ==
  {p \in FondUpdates(WeakHolderNames) : ~p.company_set /\ ~p.active_set}

\* the outcome of the last request: what it was, on which fond, what the
\* matching engine looked at and what was returned
NoOp ==
  [op |-> "init", status |-> "ok", user |-> 0, fond |-> 0, old_owner |-> NoOwner,
   company_set |-> FALSE, holder_set |-> FALSE, active_set |-> FALSE,
   owner_set |-> FALSE, owner_id |-> NoOwner,
   holder_changed |-> FALSE, evaluated |-> FALSE, ranked |-> <<>>, applied |-> FALSE,
   apply_automatic |-> FALSE, auto |-> <<>>, manual |-> <<>>, scan |-> <<>>]

Outcome(op, status) == [NoOp EXCEPT !.op = op, !.status = status]

\* the part of a ranked list that the outcome keeps
ids_and_scores(potential_owners) ==
  [k \in DOMAIN potential_owners |->
     [user_id |-> potential_owners[k].user_id,
      similarity |-> potential_owners[k].similarity]]

\* no name is being scored and no bulk assignment is under way
Idle ==
  /\ nameA = <<>> /\ nameB = <<>> /\ result = <<>> /\ phase = "idle"
  /\ calls = <<>>

Init ==
  /\ users = <<>>
  /\ fonds = <<>>
  /\ last = NoOp
  /\ Idle

(***************************************************************************)
(* app/crud/user.py : create_user                                          *)
(***************************************************************************)
CreateUser(inp) ==
  /\ Len(users) < MaxUsers
  /\ IF inp.role = "client" /\ strip(inp.company_name) = <<>>
     THEN \* ValueError("Company name is required for client users")
          /\ last' = Outcome("create_user", "error")
          /\ UNCHANGED users
     ELSE /\ users' = Append(users, inp)
          /\ last' = Outcome("create_user", "ok")
  /\ UNCHANGED <<fonds, nameA, nameB, result, phase, calls>>

(***************************************************************************)
(* app/api/routes/fonds.py : create_fond -> app/crud/fond.py : create_fond *)
(***************************************************************************)
crud_create_fond(company_name, holder_name, owner_id) ==
  [company_name |-> company_name, holder_name |-> holder_name,
   active |-> TRUE, owner_id |-> owner_id]

create_fond(u, company_name, holder_name, owner_id) ==
  /\ u \in UserIds
  /\ LET role == users[u].role
         potential_client == find_client_by_company_name(users, holder_name)
         final_owner_id ==
           IF role = "admin"
           THEN IF owner_id # NoOwner THEN owner_id ELSE potential_client
           ELSE u
     IN IF role = "audit" THEN
          /\ last' = [Outcome("create", "forbidden") EXCEPT !.user = u]
          /\ UNCHANGED fonds
        ELSE IF role = "client" /\ owner_id # NoOwner /\ owner_id # u THEN
          /\ last' = [Outcome("create", "forbidden") EXCEPT !.user = u]
          /\ UNCHANGED fonds
        ELSE IF role \notin {"admin", "client"} THEN
          /\ last' = [Outcome("create", "forbidden") EXCEPT !.user = u]
          /\ UNCHANGED fonds
        ELSE IF /\ final_owner_id # NoOwner
                /\ (final_owner_id \notin UserIds \/ users[final_owner_id].role # "client") THEN
          /\ last' = [Outcome("create", "invalid") EXCEPT !.user = u]
          /\ UNCHANGED fonds
        ELSE
          /\ fonds' = Append(fonds, crud_create_fond(company_name, holder_name, final_owner_id))
          /\ last' = [Outcome("create", "ok") EXCEPT
                        !.user = u, !.fond = Len(fonds) + 1,
                        !.owner_set = (owner_id # NoOwner),
                        !.evaluated = (role = "admin" /\ owner_id = NoOwner),
                        !.applied = (role = "admin" /\ owner_id = NoOwner
                                     /\ potential_client # NoOwner)]
  /\ UNCHANGED <<users, nameA, nameB, result, phase, calls>>

\* POST /fonds/ while the table holds fewer than MaxFonds rows
CreateFond(u, company_name, holder_name, owner_id) ==
  /\ Len(fonds) < MaxFonds
  /\ create_fond(u, company_name, holder_name, owner_id)

\* POST /fonds/ while the table holds fewer than MaxScanFonds rows
CreateScannedFond(u, company_name, holder_name, owner_id) ==
  /\ Len(fonds) < MaxScanFonds
  /\ create_fond(u, company_name, holder_name, owner_id)

(***************************************************************************)
(* app/crud/fond.py : update_fond                                          *)
(***************************************************************************)
\* holder_name_changed without the comparison of the two names
holder_name_changed_unchecked(old_holder_name, new_holder_name) ==
  /\ new_holder_name # NoName
  /\ old_holder_name # NoName

\* old_holder_name != new_holder_name and new_holder_name and old_holder_name
holder_name_changed(old_holder_name, new_holder_name) ==
  /\ old_holder_name # new_holder_name
  /\ new_holder_name # NoName
  /\ old_holder_name # NoName

\* should_reassign with the 0.95 test left out: any high-confidence match is applied
should_reassign_high_only(potential_owners) ==
  /\ potential_owners # <<>>
  /\ GE(potential_owners[1].similarity, <<7, 10>>)

\* the nested tests on potential_owners[0]["similarity"]
should_reassign(potential_owners) ==
  /\ potential_owners # <<>>
  /\ GE(potential_owners[1].similarity, <<4, 5>>)
  /\ GE(potential_owners[1].similarity, <<19, 20>>)

\* lines 284-305: the tests on the ranked candidates, db.commit() and the result
update_fond_commit(fs, fond_id, set_fond, old_owner_id, changed, potential_owners) ==
  LET reassign == should_reassign(potential_owners)
      new_fond == IF reassign
                  THEN [set_fond EXCEPT !.owner_id = potential_owners[1].user_id]
                  ELSE set_fond
      \* db.commit(): company_name and holder_name are NOT NULL
      committed == new_fond.company_name # NoName /\ new_fond.holder_name # NoName
  IN [fonds |-> IF committed THEN [fs EXCEPT ![fond_id] = new_fond] ELSE fs,
      status |-> IF committed THEN "ok" ELSE "error",
      old_owner |-> old_owner_id,
      holder_changed |-> changed,
      evaluated |-> changed,
      ranked |-> potential_owners,
      applied |-> reassign /\ committed]

\* the setattr loop over a body dumped without exclude_unset for "active":
\* the default of the field is written although the request did not set it
set_fields_default_active(db_fond, fond_update) ==
  [db_fond EXCEPT
     !.company_name = IF fond_update.company_set THEN fond_update.company_name ELSE @,
     !.holder_name = IF fond_update.holder_set THEN fond_update.holder_name ELSE @,
     !.active = fond_update.active,
     !.owner_id = IF fond_update.owner_set THEN fond_update.owner_id ELSE @]

\* lines 270-274: model_dump(exclude_unset=True) and the setattr loop
set_fields(db_fond, fond_update) ==
  [db_fond EXCEPT
     !.company_name = IF fond_update.company_set THEN fond_update.company_name ELSE @,
     !.holder_name = IF fond_update.holder_set THEN fond_update.holder_name ELSE @,
     !.active = IF fond_update.active_set THEN fond_update.active ELSE @,
     !.owner_id = IF fond_update.owner_set THEN fond_update.owner_id ELSE @]

update_fond(fs, us, fond_id, fond_update) ==
  LET db_fond == fs[fond_id]
      old_holder_name == db_fond.holder_name
      old_owner_id == db_fond.owner_id
      set_fond == set_fields(db_fond, fond_update)
      new_holder_name == set_fond.holder_name
      changed == holder_name_changed(old_holder_name, new_holder_name)
  IN update_fond_commit(fs, fond_id, set_fond, old_owner_id, changed,
       IF changed
       THEN find_potential_owners_for_holder(us, new_holder_name, old_owner_id)
       ELSE <<>>)

\* what the request of user u (0: a call of the crud function) leaves in the
\* table and returns
update_fond_response(u, fond_id, fond_update, r) ==
  /\ fonds' = r.fonds
  /\ last' = [Outcome("update", r.status) EXCEPT
                !.user = u,
                !.fond = fond_id, !.old_owner = r.old_owner,
                !.company_set = fond_update.company_set,
                !.holder_set = fond_update.holder_set,
                !.active_set = fond_update.active_set,
                !.owner_set = fond_update.owner_set,
                !.owner_id = fond_update.owner_id,
                !.holder_changed = r.holder_changed,
                !.evaluated = r.evaluated,
                !.ranked = ids_and_scores(r.ranked),
                !.applied = r.applied]

UpdateFond(fond_id, fond_update) ==
  /\ fond_update.owner_id \in UserIds \cup {NoOwner}
  /\ IF fond_id \notin FondIds THEN
       /\ last' = Outcome("update", "not_found")
       /\ UNCHANGED fonds
     ELSE update_fond_response(0, fond_id, fond_update,
                               update_fond(fonds, users, fond_id, fond_update))
  /\ UNCHANGED <<users, nameA, nameB, result, phase, calls>>

(***************************************************************************)
(* app/crud/fond.py : get_reassignment_suggestions                         *)
(***************************************************************************)
Take(seq, n) == SubSeq(seq, 1, Min(n, Len(seq)))

get_reassignment_suggestions(fs, us, fond_id) ==
  LET fond == fs[fond_id]
      potential_owners == find_potential_owners_for_holder(us, fond.holder_name, fond.owner_id)
  IN Take(potential_owners, 5)

\* a suggestion lookup that also hands the fond to the best suggestion
GetReassignmentSuggestions_applying(u, fond_id) ==
  /\ u \in UserIds
  /\ fond_id \in FondIds
  /\ users[u].role = "admin"
  /\ last' = [Outcome("suggest", "ok") EXCEPT
                !.fond = fond_id, !.old_owner = fonds[fond_id].owner_id,
                !.evaluated = TRUE,
                !.ranked = ids_and_scores(get_reassignment_suggestions(fonds, users, fond_id))]
  /\ fonds' = [fonds EXCEPT ![fond_id].owner_id =
                 first_or_none([k \in DOMAIN get_reassignment_suggestions(fonds, users, fond_id) |->
                                  get_reassignment_suggestions(fonds, users, fond_id)[k].user_id])]
  /\ UNCHANGED <<users, nameA, nameB, result, phase, calls>>

GetReassignmentSuggestions(u, fond_id) ==
  /\ u \in UserIds
  /\ last' =
       IF users[u].role # "admin" THEN Outcome("suggest", "forbidden")
       ELSE IF fond_id \notin FondIds THEN Outcome("suggest", "not_found")
       ELSE [Outcome("suggest", "ok") EXCEPT
               !.fond = fond_id, !.old_owner = fonds[fond_id].owner_id,
               !.evaluated = TRUE,
               !.ranked = ids_and_scores(get_reassignment_suggestions(fonds, users, fond_id))]
  /\ UNCHANGED <<users, fonds, nameA, nameB, result, phase, calls>>

(***************************************************************************)
(* app/crud/fond.py : apply_reassignment, soft_delete_fond                 *)
(***************************************************************************)
apply_reassignment(fs, us, fond_id, new_owner_id) ==
  IF fond_id \notin DOMAIN fs THEN [success |-> FALSE, fonds |-> fs]
  ELSE IF /\ new_owner_id # NoOwner
          /\ ~(new_owner_id \in DOMAIN us /\ us[new_owner_id].role = "client")
  THEN [success |-> FALSE, fonds |-> fs]
  ELSE [success |-> TRUE, fonds |-> [fs EXCEPT ![fond_id].owner_id = new_owner_id]]

\* app/api/routes/fonds.py : confirm_reassignment
ConfirmReassignment(u, fond_id, new_owner_id) ==
  /\ u \in UserIds
  /\ IF users[u].role # "admin" THEN
       /\ last' = [Outcome("confirm", "forbidden") EXCEPT !.user = u]
       /\ UNCHANGED fonds
     ELSE IF fond_id \notin FondIds THEN
       /\ last' = [Outcome("confirm", "not_found") EXCEPT !.user = u]
       /\ UNCHANGED fonds
     ELSE IF /\ new_owner_id # NoOwner
             /\ (new_owner_id \notin UserIds \/ users[new_owner_id].role # "client") THEN
       /\ last' = [Outcome("confirm", "invalid") EXCEPT
                     !.user = u, !.fond = fond_id, !.old_owner = fonds[fond_id].owner_id,
                     !.owner_set = TRUE, !.owner_id = new_owner_id]
       /\ UNCHANGED fonds
     ELSE LET r == apply_reassignment(fonds, users, fond_id, new_owner_id)
          IN /\ fonds' = r.fonds
             /\ last' = [Outcome("confirm", IF r.success THEN "ok" ELSE "invalid") EXCEPT
                           !.user = u, !.fond = fond_id,
                           !.owner_set = TRUE, !.owner_id = new_owner_id]
  /\ UNCHANGED <<users, nameA, nameB, result, phase, calls>>

\* a soft delete that also releases the fond from its owner
soft_delete_fond_releasing(fs, fond_id) ==
  [fs EXCEPT ![fond_id].active = FALSE, ![fond_id].owner_id = NoOwner]

soft_delete_fond(fs, fond_id) == [fs EXCEPT ![fond_id].active = FALSE]

SoftDeleteFond(fond_id) ==
  /\ IF fond_id \notin FondIds THEN
       /\ last' = Outcome("soft_delete", "not_found")
       /\ UNCHANGED fonds
     ELSE
       /\ fonds' = soft_delete_fond(fonds, fond_id)
       /\ last' = [Outcome("soft_delete", "ok") EXCEPT !.fond = fond_id]
  /\ UNCHANGED <<users, nameA, nameB, result, phase, calls>>

(***************************************************************************)
(* app/services/assignment_service.py : AssignmentService.assign_fond_to_user *)
(***************************************************************************)
\* assign_fond_to_user without the check of the new owner's role
assign_fond_to_user_unchecked(fs, us, fond_id, user_id) ==
  IF fond_id \notin DOMAIN fs THEN [success |-> FALSE, error |-> "not_found", fonds |-> fs]
  ELSE [success |-> TRUE, error |-> "ok",
        fonds |-> [fs EXCEPT ![fond_id].owner_id = user_id]]

assign_fond_to_user(fs, us, fond_id, user_id) ==
  IF fond_id \notin DOMAIN fs THEN [success |-> FALSE, error |-> "not_found", fonds |-> fs]
  ELSE IF /\ user_id # NoOwner
          /\ ~(user_id \in DOMAIN us /\ us[user_id].role = "client")
  THEN [success |-> FALSE, error |-> "invalid", fonds |-> fs]
  ELSE [success |-> TRUE, error |-> "ok",
        fonds |-> [fs EXCEPT ![fond_id].owner_id = user_id]]

AssignFondToUser(fond_id, user_id) ==
  /\ LET r == assign_fond_to_user(fonds, users, fond_id, user_id)
     IN /\ fonds' = r.fonds
        /\ last' = IF r.error = "not_found" THEN Outcome("assign", "not_found")
                   ELSE [Outcome("assign", r.error) EXCEPT
                           !.fond = fond_id,
                           !.old_owner = IF r.success THEN NoOwner
                                         ELSE fonds[fond_id].owner_id,
                           !.owner_set = TRUE, !.owner_id = user_id]
  /\ UNCHANGED <<users, nameA, nameB, result, phase, calls>>

\* AssignmentService.suggest_assignments_by_similarity
suggest_assignments_by_similarity(fs, us, fond_id, limit) ==
  IF fond_id \notin DOMAIN fs THEN <<>>
  ELSE LET clients == clients_query(us, NoOwner)
           kept == SelectSeq(clients,
                     LAMBDA i : /\ us[i].company_name # NoName
                                /\ GT(service_similarity_of(fs[fond_id].company_name,
                                                            us[i].company_name), <<3, 10>>))
           suggestions ==
             [k \in DOMAIN kept |->
                [user_id |-> kept[k],
                 similarity |-> service_similarity_of(fs[fond_id].company_name,
                                                      us[kept[k]].company_name)]]
       IN Take(sort_desc(suggestions), limit)

\* AssignmentService.get_unassigned_fonds(limit=1000)
\* get_unassigned_fonds without the filter on owner_id
get_unassigned_fonds_all(fs) == [i \in DOMAIN fs |-> i]

get_unassigned_fonds(fs) ==
  SelectSeq([i \in DOMAIN fs |-> i], LAMBDA i : fs[i].owner_id = NoOwner)

\* AssignmentService.auto_assign_by_similarity: one iteration per unassigned fond
RECURSIVE auto_assign_loop(_, _, _, _, _)
\* the body of the loop for one fond and its suggestions
auto_assign_step(unassigned_fonds, k, us, threshold, acc, fond_id, suggestions) ==
  LET seen == Append(acc.scan, [fond |-> fond_id, old_owner |-> acc.fonds[fond_id].owner_id,
                                ranked |-> suggestions])
  IN IF suggestions # <<>> /\ GE(suggestions[1].similarity, threshold)
     THEN LET r == assign_fond_to_user(acc.fonds, us, fond_id, suggestions[1].user_id)
          IN auto_assign_loop(unassigned_fonds, k + 1, us, threshold,
               [acc EXCEPT !.scan = seen, !.fonds = r.fonds,
                           !.auto = IF r.success THEN Append(@, fond_id) ELSE @,
                           !.manual = IF r.success THEN @ ELSE Append(@, fond_id)])
     ELSE auto_assign_loop(unassigned_fonds, k + 1, us, threshold,
            [acc EXCEPT !.scan = seen, !.manual = Append(@, fond_id)])

auto_assign_loop(unassigned_fonds, k, us, threshold, acc) ==
  IF k > Len(unassigned_fonds) THEN acc
  ELSE auto_assign_step(unassigned_fonds, k, us, threshold, acc, unassigned_fonds[k],
         suggest_assignments_by_similarity(acc.fonds, us, unassigned_fonds[k], 1))

auto_assign_by_similarity(fs, us, threshold) ==
  auto_assign_loop(get_unassigned_fonds(fs), 1, us, threshold,
                   [fonds |-> fs, auto |-> <<>>, manual |-> <<>>, scan |-> <<>>])

Thresholds == {<<4, 5>>, <<19, 20>>}

\* what the call leaves in the table and returns
auto_assign_response(r) ==
  /\ fonds' = r.fonds
  /\ last' = [Outcome("auto_assign", "ok") EXCEPT
                !.auto = r.auto, !.manual = r.manual, !.scan = r.scan]

AutoAssignBySimilarity(threshold) ==
  /\ auto_assign_response(auto_assign_by_similarity(fonds, users, threshold))
  /\ UNCHANGED <<users, nameA, nameB, result, phase, calls>>

(***************************************************************************)
(* app/api/routes/fonds.py : bulk_check_reassignments                      *)
(***************************************************************************)
\* crud_fond.get_fonds(db, skip=0, limit=1000, active_only=True)
get_fonds(fs, active_only) ==
  SelectSeq([i \in DOMAIN fs |-> i], LAMBDA i : active_only => fs[i].active)

\* One iteration per fond of all_fonds; acc carries the database and the two
\* result lists.  Reading best_match["confidence"] raises KeyError when the
\* entry has no such key, which ends the request.
RECURSIVE bulk_loop(_, _, _, _, _)
\* the body of the loop for one fond and its ranked candidates
bulk_step(all_fonds, k, us, apply_automatic, acc, fond_id, potential_owners) ==
  LET seen == Append(acc.scan, [fond |-> fond_id, old_owner |-> acc.fonds[fond_id].owner_id,
                                ranked |-> ids_and_scores(potential_owners)])
  IN IF potential_owners = <<>>
     THEN bulk_loop(all_fonds, k + 1, us, apply_automatic, [acc EXCEPT !.scan = seen])
     ELSE
       LET best_match == potential_owners[1]
       IN IF apply_automatic /\ GE(best_match.similarity, <<19, 20>>)
          THEN LET r == apply_reassignment(acc.fonds, us, fond_id, best_match.user_id)
               IN bulk_loop(all_fonds, k + 1, us, apply_automatic,
                    [acc EXCEPT !.scan = seen, !.fonds = r.fonds,
                                !.auto = IF r.success THEN Append(@, fond_id) ELSE @])
          ELSE IF GE(best_match.similarity, <<7, 10>>)
          THEN IF "confidence" \in DOMAIN best_match
               THEN bulk_loop(all_fonds, k + 1, us, apply_automatic,
                      [acc EXCEPT !.scan = seen, !.manual = Append(@, fond_id)])
               ELSE [acc EXCEPT !.scan = seen, !.error = TRUE]
          ELSE bulk_loop(all_fonds, k + 1, us, apply_automatic, [acc EXCEPT !.scan = seen])

bulk_loop(all_fonds, k, us, apply_automatic, acc) ==
  IF k > Len(all_fonds) \/ acc.error THEN acc
  ELSE bulk_step(all_fonds, k, us, apply_automatic, acc, all_fonds[k],
         find_potential_owners_for_holder(us, acc.fonds[all_fonds[k]].holder_name,
                                          acc.fonds[all_fonds[k]].owner_id))

bulk_check_reassignments(fs, us, apply_automatic) ==
  bulk_loop(get_fonds(fs, TRUE), 1, us, apply_automatic,
            [fonds |-> fs, auto |-> <<>>, manual |-> <<>>, scan |-> <<>>, error |-> FALSE])

\* what the request leaves in the table and returns: a KeyError is answered
\* with an error and no result lists
bulk_check_response(apply_automatic, r) ==
  /\ fonds' = r.fonds
  /\ last' = [Outcome("bulk", IF r.error THEN "error" ELSE "ok") EXCEPT
                !.apply_automatic = apply_automatic,
                !.auto = IF r.error THEN <<>> ELSE r.auto,
                !.manual = IF r.error THEN <<>> ELSE r.manual,
                !.scan = r.scan]

BulkCheckReassignments(u, apply_automatic) ==
  /\ u \in UserIds
  /\ IF users[u].role # "admin" THEN
       /\ last' = Outcome("bulk", "forbidden")
       /\ UNCHANGED fonds
     ELSE bulk_check_response(apply_automatic,
                              bulk_check_reassignments(fonds, users, apply_automatic))
  /\ UNCHANGED <<users, nameA, nameB, result, phase, calls>>

(***************************************************************************)
(* app/api/routes/admin_fonds.py : bulk_assign_fonds_to_client ->          *)
(* app/crud/fond.py : bulk_assign_fonds.  Every request has a session of   *)
(* its own (autoflush=False): get_fond reads the committed rows, the       *)
(* assignments stay in the session until db.commit() writes them.          *)
(***************************************************************************)
\* the lists of fond ids of a request: one or two different ids
FondIdLists ==
  {<<f>> : f \in 1..MaxScanFonds} \cup
  {<<f, g>> : <<f, g>> \in {p \in (1..MaxScanFonds) \X (1..MaxScanFonds) : p[1] # p[2]}}

\* results = {"successful": [], "failed": [], "already_assigned": []}
new_call(client_id, fond_ids) ==
  [client_id |-> client_id, fond_ids |-> fond_ids, k |-> 1, pc |-> "loop",
   session |-> <<>>, successful |-> <<>>, failed |-> <<>>, already_assigned |-> <<>>]

\* the session after it has loaded or changed a fond
with_fond(session, fond_id, owner_id) ==
  [f \in DOMAIN session \cup {fond_id} |-> IF f = fond_id THEN owner_id ELSE session[f]]

\* the route up to the call of crud_fond.bulk_assign_fonds
BulkAssignFondsToClient(u, client_id, fond_ids) ==
  /\ u \in UserIds
  /\ Len(calls) < MaxCalls
  /\ IF users[u].role # "admin" THEN
       /\ last' = Outcome("bulk_assign", "forbidden")
       /\ UNCHANGED calls
     ELSE IF client_id \notin UserIds \/ users[client_id].role # "client" THEN
       /\ last' = Outcome("bulk_assign", "invalid")
       /\ UNCHANGED calls
     ELSE
       /\ calls' = Append(calls, new_call(client_id, fond_ids))
       /\ last' = Outcome("bulk_assign", "started")
  /\ UNCHANGED <<users, fonds, nameA, nameB, result, phase>>

\* one iteration of 'for fond_id in fond_ids'
bulk_assign_fonds_step(call, fs) ==
  LET fond_id == call.fond_ids[call.k]
      loaded == fond_id \in DOMAIN call.session
      next == [call EXCEPT !.k = @ + 1,
                           !.pc = IF call.k + 1 > Len(call.fond_ids) THEN "commit" ELSE "loop"]
  IN IF ~loaded /\ fond_id \notin DOMAIN fs
     THEN [next EXCEPT !.failed = Append(@, fond_id)]
     ELSE LET owner_id == IF loaded THEN call.session[fond_id] ELSE fs[fond_id].owner_id
          IN IF owner_id # NoOwner
             THEN [next EXCEPT !.already_assigned = Append(@, fond_id),
                               !.session = with_fond(@, fond_id, owner_id)]
             ELSE [next EXCEPT !.successful = Append(@, fond_id),
                               !.session = with_fond(@, fond_id, call.client_id)]

BulkAssignStep(c) ==
  /\ c \in DOMAIN calls
  /\ calls[c].pc = "loop"
  /\ calls' = [calls EXCEPT ![c] = bulk_assign_fonds_step(calls[c], fonds)]
  /\ UNCHANGED <<users, fonds, last, nameA, nameB, result, phase>>

\* if results["successful"]: db.commit(), and the response of the route
BulkAssignCommit(c) ==
  /\ c \in DOMAIN calls
  /\ calls[c].pc = "commit"
  /\ fonds' = [f \in DOMAIN fonds |->
                 IF f \in Range(calls[c].successful)
                 THEN [fonds[f] EXCEPT !.owner_id = calls[c].client_id]
                 ELSE fonds[f]]
  /\ calls' = [calls EXCEPT ![c].pc = "done"]
  /\ last' = Outcome("bulk_assign", "ok")
  /\ UNCHANGED <<users, nameA, nameB, result, phase>>

(***************************************************************************)
(* app/crud/fond.py : the permission checks, and the routes that use them  *)
(***************************************************************************)
\* what is left under the id of a row that db.delete() removed
NoFond ==
  [company_name |-> NoName, holder_name |-> NoName, active |-> FALSE, owner_id |-> NoOwner]

get_fond(fs, fond_id) == IF fond_id \in DOMAIN fs THEN fs[fond_id] ELSE NoFond

\* can_user_edit_fond that lets a client edit a fond nobody owns
can_user_edit_fond_or_unowned(us, fs, u, fond_id) ==
  CASE us[u].role = "admin" -> TRUE
    [] us[u].role = "audit" -> FALSE
    [] us[u].role = "client" ->
         /\ get_fond(fs, fond_id) # NoFond
         /\ get_fond(fs, fond_id).owner_id \in {u, NoOwner}
    [] OTHER -> FALSE

\* can_user_edit_fond that treats an audit user like an administrator
can_user_edit_fond_audit(us, fs, u, fond_id) ==
  CASE us[u].role \in {"admin", "audit"} -> TRUE
    [] us[u].role = "client" ->
         /\ get_fond(fs, fond_id) # NoFond
         /\ get_fond(fs, fond_id).owner_id = u
    [] OTHER -> FALSE

can_user_edit_fond(us, fs, u, fond_id) ==
  CASE us[u].role = "admin" -> TRUE
    [] us[u].role = "audit" -> FALSE
    [] us[u].role = "client" ->
         /\ get_fond(fs, fond_id) # NoFond
         /\ get_fond(fs, fond_id).owner_id = u
    [] OTHER -> FALSE

can_user_view_fond(us, fs, u, fond_id) ==
  CASE us[u].role \in {"admin", "audit"} -> TRUE
    [] us[u].role = "client" ->
         /\ get_fond(fs, fond_id) # NoFond
         /\ get_fond(fs, fond_id).owner_id = u
    [] OTHER -> FALSE

\* the response of a request of user u that is refused: HTTPException, and the
\* fonds and users as they are
Refused(u, id, op, status) ==
  /\ last' = [Outcome(op, status) EXCEPT !.user = u, !.fond = id]
  /\ UNCHANGED <<users, fonds>>

\* GET /fonds/{fond_id}
GetFond(u, fond_id) ==
  /\ u \in UserIds
  /\ IF ~can_user_view_fond(users, fonds, u, fond_id) THEN Refused(u, fond_id, "get", "forbidden")
     ELSE IF get_fond(fonds, fond_id) = NoFond THEN Refused(u, fond_id, "get", "not_found")
     ELSE /\ last' = [Outcome("get", "ok") EXCEPT !.user = u, !.fond = fond_id]
          /\ UNCHANGED fonds
  /\ UNCHANGED <<users, nameA, nameB, result, phase, calls>>

\* PUT /fonds/{fond_id}: a permitted request calls
\* crud_fond.update_fond_with_reassignment_detection, which crud/fond.py does not
\* define, and ends with AttributeError
UpdateFondRoute(u, fond_id, fond_update) ==
  /\ u \in UserIds
  /\ IF ~can_user_edit_fond(users, fonds, u, fond_id)
     THEN Refused(u, fond_id, "put", "forbidden")
     ELSE Refused(u, fond_id, "put", "error")
  /\ UNCHANGED <<users, nameA, nameB, result, phase, calls>>

\* PUT /fonds/my-fonds/{fond_id}
UpdateMyFond(u, fond_id, fond_update) ==
  /\ u \in UserIds
  /\ fond_update.owner_id \in UserIds \cup {NoOwner}
  /\ IF \* validate_fond_access(db, current_user, fond_id, "edit")
        get_fond(fonds, fond_id) = NoFond \/ ~can_user_edit_fond(users, fonds, u, fond_id)
     THEN Refused(u, fond_id, "update", "forbidden")
     ELSE update_fond_response(u, fond_id, fond_update,
                               update_fond(fonds, users, fond_id, fond_update))
  /\ UNCHANGED <<users, nameA, nameB, result, phase, calls>>

\* DELETE /fonds/my-fonds/{fond_id}
DeleteMyFond(u, fond_id, permanent) ==
  /\ u \in UserIds
  /\ IF \* validate_fond_access(db, current_user, fond_id, "delete")
        get_fond(fonds, fond_id) = NoFond \/ ~can_user_edit_fond(users, fonds, u, fond_id)
     THEN Refused(u, fond_id, "delete", "forbidden")
     ELSE \* permanently_delete_fond (db.delete) or soft_delete_fond
          /\ fonds' = IF permanent THEN [fonds EXCEPT ![fond_id] = NoFond]
                                   ELSE soft_delete_fond(fonds, fond_id)
          /\ last' = [Outcome("delete", "ok") EXCEPT !.user = u, !.fond = fond_id]
  /\ UNCHANGED <<users, nameA, nameB, result, phase, calls>>

\* DELETE /fonds/{fond_id}
DeleteFond(u, fond_id, permanent) ==
  /\ u \in UserIds
  /\ IF users[u].role = "audit" THEN Refused(u, fond_id, "delete", "forbidden")
     ELSE IF ~can_user_edit_fond(users, fonds, u, fond_id)
     THEN Refused(u, fond_id, "delete", "forbidden")
     ELSE IF get_fond(fonds, fond_id) = NoFond THEN Refused(u, fond_id, "delete", "not_found")
     ELSE \* permanently_delete_fond (db.delete) or soft_delete_fond
          /\ fonds' = IF permanent THEN [fonds EXCEPT ![fond_id] = NoFond]
                                   ELSE soft_delete_fond(fonds, fond_id)
          /\ last' = [Outcome("delete", "ok") EXCEPT !.user = u, !.fond = fond_id]
  /\ UNCHANGED <<users, nameA, nameB, result, phase, calls>>

(***************************************************************************)
(* app/crud/user.py and app/api/routes/users.py                            *)
(***************************************************************************)
count_users_by_role(us, role) == Cardinality({i \in DOMAIN us : us[i].role = role})

\* the accounts of the model, in the order of their creation
Roster ==
  << [role |-> "admin", company_name |-> NoName],
     [role |-> "client", company_name |-> N_ABCDE_SA],
     [role |-> "client", company_name |-> N_ABCDE_SA],
     [role |-> "audit", company_name |-> NoName] >>

\* the safety check of the route without the count of the administrators
changes_last_admin_unchecked(us, user_id, role) == FALSE

\* routes/users.py lines 183-193: the request takes the admin role from the
\* only administrator
changes_last_admin(us, user_id, role) ==
  /\ role # "none" /\ role # "admin"
  /\ us[user_id].role = "admin"
  /\ count_users_by_role(us, "admin") <= 1

\* crud update_user: the fields that are not None are written, a client needs
\* a company name, and a user who stops being a client loses it
update_user(us, user_id, user_in) ==
  LET old_role == us[user_id].role
      new_role == IF user_in.role # "none" THEN user_in.role ELSE old_role
      final_company_name == IF user_in.company_name # NoName
                            THEN user_in.company_name ELSE us[user_id].company_name
  IN IF new_role = "client" /\ strip(final_company_name) = <<>> THEN us
     ELSE [us EXCEPT ![user_id] =
             [role |-> new_role,
              company_name |-> IF new_role # "client" /\ old_role = "client"
                               THEN NoName ELSE final_company_name]]

\* POST /users/, for the accounts of the roster
CreateUserRoute(u, inp) ==
  /\ u \in UserIds
  /\ Len(users) < Len(Roster)
  /\ IF users[u].role # "admin" THEN Refused(u, 0, "create_user", "forbidden")
     ELSE IF inp.role = "client" /\ strip(inp.company_name) = <<>>
     THEN Refused(u, 0, "create_user", "invalid")
     ELSE /\ users' = Append(users, inp)
          /\ last' = Outcome("create_user", "ok")
  /\ UNCHANGED <<fonds, nameA, nameB, result, phase, calls>>

\* PUT /users/{user_id}; user_in is a UserUpdate body, its role and company name
\* each set or None ("none" is the role that is not set)
UpdateUser(u, user_id, user_in) ==
  /\ u \in UserIds
  /\ IF users[u].role = "audit" THEN Refused(u, user_id, "update_user", "forbidden")
     ELSE IF /\ users[u].role = "client"
             /\ \/ user_id # u
                \/ user_in.role # "none" /\ user_in.role # users[u].role
     THEN Refused(u, user_id, "update_user", "forbidden")
     ELSE IF users[u].role \notin {"admin", "client"}
     THEN Refused(u, user_id, "update_user", "forbidden")
     ELSE IF (user_id \notin UserIds \/ users[user_id].role = "deleted")
     THEN Refused(u, user_id, "update_user", "not_found")
     ELSE IF changes_last_admin(users, user_id, user_in.role)
     THEN Refused(u, user_id, "update_user", "last_admin")
     ELSE IF /\ (IF user_in.role # "none" THEN user_in.role ELSE users[user_id].role)
                  = "client"
             /\ strip(IF user_in.company_name # NoName THEN user_in.company_name
                      ELSE users[user_id].company_name) = <<>>
     THEN Refused(u, user_id, "update_user", "invalid")
     ELSE /\ users' = update_user(users, user_id, user_in)
          /\ last' = [Outcome("update_user", "ok") EXCEPT !.user = u, !.fond = user_id]
  /\ UNCHANGED <<fonds, nameA, nameB, result, phase, calls>>

\* DELETE /users/{user_id}: the route reads db_user, which it never assigns, and
\* an administrator's request ends with NameError
DeleteUserRoute(u, user_id) ==
  /\ u \in UserIds
  /\ IF users[u].role # "admin"
     THEN Refused(u, user_id, "delete_user", "forbidden")
     ELSE Refused(u, user_id, "delete_user", "error")
  /\ UNCHANGED <<fonds, nameA, nameB, result, phase, calls>>

\* crud delete_user(db, db_user)
DeleteUser(user_id) ==
  /\ user_id \in UserIds /\ users[user_id].role # "deleted"
  /\ IF users[user_id].role = "admin" /\ count_users_by_role(users, "admin") <= 1
     THEN Refused(0, user_id, "crud_delete_user", "last_admin")
     ELSE IF /\ users[user_id].role = "client"
             /\ \E f \in FondIds : fonds[f].owner_id = user_id
     THEN Refused(0, user_id, "crud_delete_user", "has_fonds")
     ELSE \* db.delete(db_user): the id stays, with no role and no company
          /\ users' = [users EXCEPT ![user_id] =
                         [role |-> "deleted", company_name |-> NoName]]
          /\ last' = [Outcome("crud_delete_user", "ok") EXCEPT !.fond = user_id]
  /\ UNCHANGED <<fonds, nameA, nameB, result, phase, calls>>

\* crud migrate_user_role(db, user_id, new_role); the company name it makes up
\* for a new client, "<Username> Company SRL", is the client name of the model
MigrateUserRole(user_id, new_role) ==
  /\ IF (user_id \notin UserIds \/ users[user_id].role = "deleted")
     THEN Refused(0, user_id, "migrate", "not_found")
     ELSE IF /\ users[user_id].role = "admin" /\ new_role # "admin"
             /\ count_users_by_role(users, "admin") <= 1
     THEN Refused(0, user_id, "migrate", "last_admin")
     ELSE IF /\ users[user_id].role = "client" /\ new_role # "client"
             /\ \E f \in FondIds : fonds[f].owner_id = user_id
     THEN Refused(0, user_id, "migrate", "has_fonds")
     ELSE /\ users' = [users EXCEPT ![user_id] =
                         [role |-> new_role,
                          company_name |->
                            IF new_role # "client" THEN NoName
                            ELSE IF users[user_id].company_name = NoName
                            THEN N_ABCDE_SA ELSE users[user_id].company_name]]
          /\ last' = [Outcome("migrate", "ok") EXCEPT !.fond = user_id]
  /\ UNCHANGED <<fonds, nameA, nameB, result, phase, calls>>

(***************************************************************************)
(* app/crud/fond.py : search_fonds, search_fonds_count                     *)
(***************************************************************************)
\* the default of the limit parameter
DefaultLimit == 100

\* or_(Fond.company_name.ilike(search_pattern), Fond.holder_name.ilike(search_pattern))
\* with search_pattern = f"%{search_term.lower()}%"; in SQL LIKE % stands for any
\* run of characters and _ for any one character, and ILIKE ignores the case
name_matches(fond, search_term) ==
  LET RECURSIVE like(_, _)
      like(str, pattern) ==
        IF pattern = <<>> THEN str = <<>>
        ELSE IF Head(pattern) = "%"
             THEN like(str, Tail(pattern)) \/ (str # <<>> /\ like(Tail(str), pattern))
             ELSE /\ str # <<>>
                  /\ Head(pattern) = "_" \/ Head(pattern) = Head(str)
                  /\ like(Tail(str), Tail(pattern))
      search_pattern == <<"%">> \o lower(search_term) \o <<"%">>
  IN \/ like(lower(fond.company_name), lower(search_pattern))
     \/ like(lower(fond.holder_name), lower(search_pattern))

\* search_fonds without the filter Fond.active == True
search_fonds_any(fs, search_term, skip, limit) ==
  IF strip(search_term) = <<>> THEN <<>>
  ELSE LET rows == SelectSeq([i \in DOMAIN fs |-> i],
                             LAMBDA i : name_matches(fs[i], search_term))
       IN SubSeq(rows, skip + 1, Min(Len(rows), skip + limit))

\* the ids of the rows, after query.offset(skip).limit(limit).all()
search_fonds(fs, search_term, skip, limit) ==
  IF strip(search_term) = <<>> THEN <<>>
  ELSE LET rows == SelectSeq([i \in DOMAIN fs |-> i],
                             LAMBDA i : fs[i].active /\ name_matches(fs[i], search_term))
       IN SubSeq(rows, skip + 1, Min(Len(rows), skip + limit))

search_fonds_count(fs, search_term) ==
  IF strip(search_term) = <<>> THEN 0
  ELSE Cardinality({i \in DOMAIN fs : fs[i].active /\ name_matches(fs[i], search_term)})

\* the search terms: part of a name, in the other case, wildcards, blank, no match
SearchTerms ==
  {<<"a", "b">>, <<"D", "E">>, <<"_", "_">>, <<" ", " ">>, <<"b", "a">>}

SearchFonds(search_term, skip, limit) ==
  /\ result' = [search_term |-> search_term, skip |-> skip, limit |-> limit,
                fonds |-> search_fonds(fonds, search_term, skip, limit)]
  /\ last' = Outcome("search", "ok")
  /\ UNCHANGED <<users, fonds, nameA, nameB, phase, calls>>

SearchFondsCount(search_term) ==
  /\ result' = [search_term |-> search_term,
                total_results |-> search_fonds_count(fonds, search_term)]
  /\ last' = Outcome("search_count", "ok")
  /\ UNCHANGED <<users, fonds, nameA, nameB, phase, calls>>

(***************************************************************************)
(* The application                                                         *)
(***************************************************************************)
Next ==
  \/ \E inp \in UserInputs : CreateUser(inp)
  \/ \E u \in 1..MaxUsers, c \in FondCompanyNames, h \in HolderNames, o \in OwnerArgs :
        CreateFond(u, c, h, o)
  \/ \E f \in 1..MaxFonds, p \in Payloads : UpdateFond(f, p)
  \/ \E u \in 1..MaxUsers, f \in 1..MaxFonds : GetReassignmentSuggestions(u, f)
  \/ \E u \in 1..MaxUsers, f \in 1..MaxFonds, o \in OwnerArgs : ConfirmReassignment(u, f, o)
  \/ \E f \in 1..MaxFonds, o \in OwnerArgs : AssignFondToUser(f, o)
  \/ \E u \in 1..MaxUsers, a \in BOOLEAN : BulkCheckReassignments(u, a)
  \/ \E t \in Thresholds : AutoAssignBySimilarity(t)

Spec == Init /\ [][Next]_vars

\* Partial updates of every field of a fond: the clients of "ABCDE SA" and
\* the fonds as create_fond stores them
InitUpdate ==
  /\ users = [u \in 1..MaxUsers |-> [role |-> "client", company_name |-> N_ABCDE_SA]]
  /\ fonds \in [1..MaxFonds ->
                 {crud_create_fond(c, h, o) :
                    c \in FondCompanyNames, h \in HolderNames, o \in OwnerArgs}]
  /\ last = NoOp
  /\ Idle

\* on the first fond and on an id that no fond has
NextUpdate ==
  \E f \in {1, MaxFonds + 1}, p \in UpdatePayloads : UpdateFond(f, p)

SpecUpdate == InitUpdate /\ [][NextUpdate]_vars

\* An administrator and a client
InitUsers ==
  /\ users = SubSeq(Roster, 1, 2)
  /\ fonds = <<>>
  /\ last = NoOp
  /\ Idle

\* The requests of administrators, audit users and clients on fonds and users
NextAccess ==
  \/ \E u \in UserIds, o \in OwnerArgs : CreateFond(u, N_abcd, N_abcd, o)
  \/ \E u \in UserIds, f \in 1..MaxFonds : GetFond(u, f)
  \/ \E u \in UserIds, f \in 1..MaxFonds, p \in Payloads :
        /\ p.holder_set # p.owner_set /\ p.holder_name # N_abcd
        /\ UpdateFondRoute(u, f, p) \/ UpdateMyFond(u, f, p)
  \/ \E u \in UserIds, f \in 1..MaxFonds, b \in BOOLEAN :
        DeleteMyFond(u, f, b) \/ DeleteFond(u, f, b)
  \/ \E u \in UserIds, f \in 1..MaxFonds, o \in OwnerArgs :
        get_fond(fonds, f) # NoFond /\ ConfirmReassignment(u, f, o)
  \/ \E u \in UserIds : CreateUserRoute(u, Roster[Len(users) + 1])
  \/ \E u \in UserIds, i \in UserIds :
        \/ UpdateUser(u, i, [role |-> "none", company_name |-> NoName])
        \/ DeleteUserRoute(u, i)

SpecAccess == InitUsers /\ [][NextAccess]_vars

\* The accounts as they are updated, migrated and deleted, and the fonds that
\* are created for them and assigned to them
NextUsers ==
  \/ \E u \in UserIds, o \in OwnerArgs : CreateFond(u, N_abcd, N_abcd, o)
  \/ \E f \in 1..MaxFonds, o \in OwnerArgs : AssignFondToUser(f, o)
  \/ \E u \in UserIds, i \in UserIds, role \in Roles \cup {"none"},
          company_name \in {NoName, N_ABCDE_SA} :
        UpdateUser(u, i, [role |-> role, company_name |-> company_name])
  \/ \E u \in UserIds, i \in UserIds : DeleteUserRoute(u, i)
  \/ \E i \in UserIds : DeleteUser(i)
  \/ \E i \in UserIds, r \in Roles : MigrateUserRole(i, r)

SpecUsers == InitUsers /\ [][NextUsers]_vars

\* The public search over fonds that an administrator creates, updates and
\* soft-deletes
NextSearch ==
  \/ \E h \in HolderNames : CreateScannedFond(1, N_abcd, h, NoOwner)
  \/ \E f \in 1..MaxScanFonds, p \in UpdatePayloads :
        /\ ~p.company_set /\ ~p.owner_set /\ (p.holder_set => p.holder_name = N_abcde)
        /\ UpdateFond(f, p)
  \/ \E f \in 1..MaxScanFonds : SoftDeleteFond(f)
  \/ \E t \in SearchTerms, skip \in {0, 1}, limit \in {1, DefaultLimit} :
        SearchFonds(t, skip, limit)
  \/ \E t \in SearchTerms : SearchFondsCount(t)

SpecSearch == InitUsers /\ [][NextSearch]_vars

\* The bulk scan over a database in which fonds are also soft-deleted
NextScan ==
  \/ \E inp \in UserInputs : CreateUser(inp)
  \/ \E u \in 1..MaxUsers, c \in FondCompanyNames, h \in HolderNames, o \in OwnerArgs :
        CreateScannedFond(u, c, h, o)
  \/ \E u \in 1..MaxUsers, f \in 1..MaxScanFonds, o \in OwnerArgs :
        ConfirmReassignment(u, f, o)
  \/ \E f \in 1..MaxScanFonds : SoftDeleteFond(f)
  \/ \E u \in 1..MaxUsers, a \in BOOLEAN : BulkCheckReassignments(u, a)

SpecScan == Init /\ [][NextScan]_vars

(***************************************************************************)
(* The normalisers applied to every short string, once and twice           *)
(***************************************************************************)
NormAlphabet == {"s", "a", "c", " ", ".", "A"}

Strings(n) == UNION {[1..k -> NormAlphabet] : k \in 0..n}

NoDb == /\ users = <<>> /\ fonds = <<>> /\ last = NoOp /\ calls = <<>>

InitNorm ==
  /\ NoDb
  /\ nameA \in Strings(MaxLen)
  /\ nameB = <<>>
  /\ result = <<>>
  /\ phase = "raw"

NormalizeOnce ==
  /\ phase = "raw"
  /\ nameB' = normalize_name(nameA)
  /\ phase' = "once"
  /\ UNCHANGED <<users, fonds, last, nameA, result, calls>>

NormalizeTwice ==
  /\ phase = "once"
  /\ result' = normalize_name(nameB)
  /\ phase' = "twice"
  /\ UNCHANGED <<users, fonds, last, nameA, nameB, calls>>

ServiceNormalizeOnce ==
  /\ phase = "raw"
  /\ nameB' = normalize_company_name(nameA)
  /\ phase' = "service_once"
  /\ UNCHANGED <<users, fonds, last, nameA, result, calls>>

ServiceNormalizeTwice ==
  /\ phase = "service_once"
  /\ result' = normalize_company_name(nameB)
  /\ phase' = "service_twice"
  /\ UNCHANGED <<users, fonds, last, nameA, nameB, calls>>

NextNorm ==
  \/ NormalizeOnce
  \/ NormalizeTwice
  \/ ServiceNormalizeOnce
  \/ ServiceNormalizeTwice

SpecNorm == InitNorm /\ [][NextNorm]_vars

(***************************************************************************)
(* The scorers applied to every pair of names made of a few words          *)
(***************************************************************************)
Tokens ==
  { <<"c", "l", "u", "j">>, <<"i", "a", "s", "i">>, <<"a", "b", "c">>,
    <<"s", "a">>, <<"a", ".">> }

\* ' '.join(words)
RECURSIVE join(_)
join(words) ==
  IF words = <<>> THEN <<>>
  ELSE IF Len(words) = 1 THEN words[1]
  ELSE words[1] \o <<" ">> \o join(Tail(words))

ScoreNames == {join(ws) : ws \in UNION {[1..k -> Tokens] : k \in 0..MaxWords}}

\* the fond "Tractorul Brasov SA" and the client company "Tractorul Brasov
\* Heritage SRL" of the sample data
Tractorul_Brasov_SA ==
  << "T", "r", "a", "c", "t", "o", "r", "u", "l", " ", "B", "r", "a", "s",
     "o", "v", " ", "S", "A" >>

Tractorul_Brasov_Heritage_SRL ==
  << "T", "r", "a", "c", "t", "o", "r", "u", "l", " ", "B", "r", "a", "s",
     "o", "v", " ", "H", "e", "r", "i", "t", "a", "g", "e", " ", "S", "R",
     "L" >>

ExampleNames == {Tractorul_Brasov_SA, Tractorul_Brasov_Heritage_SRL}

InitScore ==
  /\ NoDb
  /\ nameA \in ScoreNames \cup ExampleNames
  /\ nameB \in ScoreNames \cup ExampleNames
  /\ result = <<>>
  /\ phase = "pair"

Score ==
  /\ phase = "pair"
  /\ result' = calculate_company_similarity(nameA, nameB)
  /\ phase' = "scored"
  /\ UNCHANGED <<users, fonds, last, nameA, nameB, calls>>

\* suggest_assignments_by_similarity normalises both names before it scores them
ServiceScore ==
  /\ phase = "pair"
  /\ result' = service_calculate_similarity(normalize_company_name(nameA),
                                            normalize_company_name(nameB))
  /\ phase' = "service_scored"
  /\ UNCHANGED <<users, fonds, last, nameA, nameB, calls>>

NextScore ==
  \/ Score
  \/ ServiceScore

SpecScore == InitScore /\ [][NextScore]_vars

(***************************************************************************)
(* The automatic assignment over a database of assigned and unassigned fonds *)
(***************************************************************************)
NextAuto ==
  \/ \E inp \in UserInputs : CreateUser(inp)
  \/ \E u \in 1..MaxUsers, c \in FondCompanyNames, h \in HolderNames, o \in OwnerArgs :
        CreateScannedFond(u, c, h, o)
  \/ \E t \in Thresholds : AutoAssignBySimilarity(t)

SpecAuto == Init /\ [][NextAuto]_vars

(***************************************************************************)
(* Bulk assignments by several administrators at the same time             *)
(***************************************************************************)
BulkInputs ==
  { [role |-> "admin", company_name |-> N_abcde],
    [role |-> "client", company_name |-> N_abcd] }

\* a database of MaxPool accounts and one to MaxScanFonds fonds, each fond
\* unowned or owned by a client
InitBulk ==
  /\ users \in [1..MaxPool -> BulkInputs]
  /\ \E n \in 1..MaxScanFonds :
       fonds \in [1..n -> {crud_create_fond(N_abcd, N_abcd, o) :
                             o \in {NoOwner} \cup {i \in DOMAIN users : users[i].role = "client"}}]
  /\ last = NoOp
  /\ Idle

NextBulk ==
  \/ \E u \in 1..MaxPool, client_id \in 1..MaxPool, fond_ids \in FondIdLists :
        BulkAssignFondsToClient(u, client_id, fond_ids)
  \/ \E c \in 1..MaxCalls : BulkAssignStep(c)
  \/ \E c \in 1..MaxCalls : BulkAssignCommit(c)

SpecBulk == InitBulk /\ [][NextBulk]_vars

(***************************************************************************)
(* The application when the holder names match no company name well        *)
(***************************************************************************)
NextNoMatch ==
  \/ \E inp \in UserInputs : CreateUser(inp)
  \/ \E u \in 1..MaxUsers, c \in FondCompanyNames, h \in WeakHolderNames, o \in OwnerArgs :
        CreateFond(u, c, h, o)
  \/ \E f \in 1..MaxFonds, p \in WeakPayloads : UpdateFond(f, p)
  \/ \E u \in 1..MaxUsers, f \in 1..MaxFonds : GetReassignmentSuggestions(u, f)
  \/ \E u \in 1..MaxUsers, a \in BOOLEAN : BulkCheckReassignments(u, a)

SpecNoMatch == Init /\ [][NextNoMatch]_vars

(***************************************************************************)
(* The rankers applied to every small pool of accounts                     *)
(***************************************************************************)
Pools == UNION {[1..k -> RankInputs] : k \in 0..MaxPool}

\* one fond whose names are a ranked target, unowned or owned by a client
InitRank ==
  /\ users \in Pools
  /\ \E t \in RankTargets, o \in {NoOwner} \cup {i \in DOMAIN users : users[i].role = "client"} :
       fonds = <<crud_create_fond(t, t, o)>>
  /\ last = NoOp
  /\ Idle

\* find_potential_owners_for_holder(db, fond.holder_name, exclude_current_owner)
FindPotentialOwners(fond_id, exclude_current_owner) ==
  /\ fond_id \in FondIds
  /\ last' = [Outcome("rank", "ok") EXCEPT
                !.fond = fond_id, !.old_owner = exclude_current_owner,
                !.evaluated = TRUE,
                !.ranked = ids_and_scores(
                             find_potential_owners_for_holder(
                               users, fonds[fond_id].holder_name, exclude_current_owner))]
  /\ UNCHANGED <<users, fonds, nameA, nameB, result, phase, calls>>

\* AssignmentService.suggest_assignments_by_similarity(fond_id, limit=5)
SuggestAssignments(fond_id) ==
  /\ last' = [Outcome("suggest_assignments", "ok") EXCEPT
                !.fond = fond_id, !.evaluated = TRUE,
                !.ranked = suggest_assignments_by_similarity(fonds, users, fond_id, 5)]
  /\ UNCHANGED <<users, fonds, nameA, nameB, result, phase, calls>>

\* AssignmentService.suggest_assignments_by_similarity(fond.id, limit=1)
SuggestBestAssignment(fond_id) ==
  /\ last' = [Outcome("suggest_best", "ok") EXCEPT
                !.fond = fond_id, !.evaluated = TRUE,
                !.ranked = suggest_assignments_by_similarity(fonds, users, fond_id, 1)]
  /\ UNCHANGED <<users, fonds, nameA, nameB, result, phase, calls>>

NextRank ==
  \/ \E f \in 1..2, e \in {NoOwner} \cup (1..MaxPool) : FindPotentialOwners(f, e)
  \/ \E u \in 1..MaxPool, f \in 1..2 : GetReassignmentSuggestions(u, f)
  \/ \E f \in 1..2 : SuggestAssignments(f)
  \/ \E f \in 1..2 : SuggestBestAssignment(f)

SpecRank == InitRank /\ [][NextRank]_vars

(***************************************************************************)
(* Properties                                                              *)
(***************************************************************************)
NearExact == <<19, 20>>

Owner(f) == fonds[f].owner_id

BestSimilarity(ranked) == IF ranked = <<>> THEN Zero ELSE ranked[1].similarity

RankedIds(ranked) == {ranked[k].user_id : k \in DOMAIN ranked}

\* the highest calculate_company_similarity of a client's company name to a holder name
TopClientSimilarity(holder_name) ==
  LET scores == {similarity_of(holder_name, users[u].company_name) :
                   u \in {c \in ClientIds : users[c].company_name # NoName}}
  IN IF scores = {} THEN Zero
     ELSE CHOOSE x \in scores : \A y \in scores : GE(x, y)

\* C1: an update that changes the holder name from one non-empty value to
\* another moves the owner to the best-ranked candidate only when that
\* candidate's similarity is at least 0.95; with a weaker best match (or none)
\* the owner is the one the request itself carried, and the one the fond had
\* before when the request carried none.
C1_UpdateReassignsOnlyNearExact ==
  [][ (/\ last'.op = "update"
       /\ last'.status = "ok"
       /\ last'.fond \in DOMAIN fonds
       /\ fonds[last'.fond].holder_name # fonds'[last'.fond].holder_name)
      => LET f == last'.fond
             before == fonds[f].owner_id
             after == fonds'[f].owner_id
             requested == IF last'.owner_set THEN last'.owner_id ELSE before
             near_exact == /\ last'.ranked # <<>>
                           /\ GE(BestSimilarity(last'.ranked), NearExact)
         IN /\ last'.evaluated
            /\ near_exact => after = last'.ranked[1].user_id
            /\ ~near_exact => after = requested
            /\ (~near_exact /\ ~last'.owner_set) => after = before ]_vars

\* a holder-name change whose best candidate is below 0.95 left the owner alone
C1_Witness ==
  /\ last.op = "update"
  /\ last.status = "ok"
  /\ last.holder_changed
  /\ last.ranked # <<>>
  /\ LT(BestSimilarity(last.ranked), NearExact)
  /\ ~last.owner_set
  /\ Owner(last.fond) = last.old_owner

\* C2: the candidates ranked for an update, a suggestion lookup or a bulk scan
\* never include the fond's current owner, and an automatic reassignment on
\* update ends with an owner different from the previous one.
C2_NoSelfReassignment ==
  /\ (last.op \in {"update", "suggest"} /\ last.evaluated)
       => last.old_owner \notin RankedIds(last.ranked)
  /\ (last.op = "update" /\ last.applied)
       => /\ Owner(last.fond) # last.old_owner
          /\ Owner(last.fond) = last.ranked[1].user_id
  /\ last.op = "bulk"
       => \A k \in DOMAIN last.scan :
            last.scan[k].old_owner \notin RankedIds(last.scan[k].ranked)

\* an update reassigned a fond whose previous owner is a client that matches
\* the new holder name exactly
C2_Witness ==
  /\ last.op = "update"
  /\ last.applied
  /\ last.old_owner \in ClientIds
  /\ similarity_of(fonds[last.fond].holder_name, users[last.old_owner].company_name) = One
  /\ Owner(last.fond) # last.old_owner

\* C3: an update that leaves the holder name as it was (or sets it to
\* nothing) evaluates no candidates, and the owner afterwards is the one the
\* request carried, or the previous one when it carried none.
C3_NoDetectionWithoutNameChange ==
  [][ (/\ last'.op = "update"
       /\ last'.status \in {"ok", "error"}
       /\ last'.fond \in DOMAIN fonds
       /\ fonds[last'.fond].holder_name = fonds'[last'.fond].holder_name)
      => LET f == last'.fond
             before == fonds[f].owner_id
             after == fonds'[f].owner_id
         IN /\ ~last'.evaluated
            /\ last'.ranked = <<>>
            /\ ~last'.applied
            /\ after = IF last'.status = "ok" /\ last'.owner_set
                       THEN last'.owner_id ELSE before ]_vars

\* an update kept the holder name while a client other than the owner matches
\* that name exactly, and the owner stayed
C3_Witness ==
  /\ last.op = "update"
  /\ last.status = "ok"
  /\ ~last.holder_changed
  /\ ~last.owner_set
  /\ Owner(last.fond) = last.old_owner
  /\ \E u \in ClientIds :
       /\ u # last.old_owner
       /\ similarity_of(fonds[last.fond].holder_name, users[u].company_name) = One

\* C4: a fond created by an admin without an explicit owner gets an owner
\* only if the best similarity of a client to its holder name is at least 0.95.
C4_CreateAssignsOnlyNearExact ==
  (/\ last.op = "create"
   /\ last.status = "ok"
   /\ last.evaluated)
  => (Owner(last.fond) # NoOwner
        => GE(TopClientSimilarity(fonds[last.fond].holder_name), NearExact))

\* the candidates a bulk scan saw for a fond, or would see for a fond it skipped
ScanRanked(f) ==
  IF \E k \in DOMAIN last.scan : last.scan[k].fond = f
  THEN LET k == CHOOSE k \in DOMAIN last.scan : last.scan[k].fond = f
       IN last.scan[k].ranked
  ELSE ids_and_scores(find_potential_owners_for_holder(users, fonds[f].holder_name,
                                                       fonds[f].owner_id))

\* C5: after a bulk scan with apply_automatic, every active fond whose best
\* candidate has similarity >= 0.95 is owned by that candidate and is listed
\* among the automatic reassignments and not among the manual candidates, and
\* no fond is listed in both.
C5_BulkAutoAssigned ==
  (/\ last.op = "bulk"
   /\ last.status # "forbidden"
   /\ last.apply_automatic)
  => /\ \A f \in FondIds :
          (fonds[f].active /\ GE(BestSimilarity(ScanRanked(f)), NearExact))
            => /\ Owner(f) = ScanRanked(f)[1].user_id
               /\ f \in Range(last.auto)
               /\ f \notin Range(last.manual)
     /\ Range(last.auto) \cap Range(last.manual) = {}

\* C6: a bulk scan that meets a fond whose best candidate has similarity in
\* [0.7, 0.95) completes, lists the fond among the manual candidates and leaves
\* its owner unchanged, with and without apply_automatic.
C6_BulkManualReview ==
  (/\ last.op = "bulk"
   /\ last.status # "forbidden")
  => \A k \in DOMAIN last.scan :
       (/\ GE(BestSimilarity(last.scan[k].ranked), <<7, 10>>)
        /\ LT(BestSimilarity(last.scan[k].ranked), NearExact))
       => /\ last.status = "ok"
          /\ last.scan[k].fond \in Range(last.manual)
          /\ Owner(last.scan[k].fond) = last.scan[k].old_owner

\* C7: on the automatic paths (create without owner, reassignment on update,
\* bulk scan, similarity auto-assignment) a new owner is always a client, and
\* an assignment to a user that is not a client changes nothing.
C7_OnlyClientsBecomeOwners ==
  /\ (last.op \in {"create", "update"} /\ last.applied) => Owner(last.fond) \in ClientIds
  /\ last.op \in {"bulk", "auto_assign"}
       => \A k \in DOMAIN last.scan :
            Owner(last.scan[k].fond) # last.scan[k].old_owner
              => Owner(last.scan[k].fond) \in ClientIds
  /\ (last.op \in {"confirm", "assign"} /\ last.fond # 0 /\ last.owner_id # NoOwner)
       => IF last.owner_id \in ClientIds
          THEN last.status = "ok" /\ Owner(last.fond) = last.owner_id
          ELSE last.status = "invalid" /\ Owner(last.fond) = last.old_owner

\* an update reassigned a fond to a client while a user that is not a client
\* carries a company name that matches the new holder name exactly
C7_Witness ==
  /\ last.op = "update"
  /\ last.applied
  /\ Owner(last.fond) \in ClientIds
  /\ \E u \in UserIds \ ClientIds :
       /\ users[u].company_name # NoName
       /\ calculate_company_similarity(fonds[last.fond].holder_name,
                                       users[u].company_name) = One

\* C8: normalising a normalised name returns it unchanged, for both normalisers.
C8_NormalizeIdempotent ==
  phase \in {"twice", "service_twice"} => result = nameB

\* C9: every score is a fraction between 0 and 1.
C9_ScoreBounds ==
  phase \in {"scored", "service_scored"}
    => /\ result[2] > 0
       /\ GE(result, Zero)
       /\ GE(One, result)

\* two place names are common to two names that neither equal nor contain each other
C9_Witness ==
  /\ phase = "scored"
  /\ LET a == normalize_name(nameA)
         b == normalize_name(nameB)
     IN /\ matching_rule(a, b) = "words"
        /\ Cardinality(long_words(a) \cap long_words(b) \cap important_words) >= 2
  /\ result = One

\* C10: two names whose normalised forms are equal and non-empty score 1.
C10_SelfSimilarity ==
  (/\ phase = "scored"
   /\ normalize_name(nameA) = normalize_name(nameB)
   /\ normalize_name(nameA) # <<>>)
  => result = One

\* two different names with the same non-empty normalised form were scored
C10_Witness ==
  /\ phase = "scored"
  /\ nameA # nameB
  /\ normalize_name(nameA) = normalize_name(nameB)
  /\ normalize_name(nameA) # <<>>
  /\ result = One

\* C11: whenever one of the two names is empty after normalisation, or both
\* are, the score is 0, for the scorer of crud/fond.py and for the scorer of
\* the assignment service.
C11_EmptyScoresZero ==
  /\ (/\ phase = "scored"
      /\ (normalize_name(nameA) = <<>> \/ normalize_name(nameB) = <<>>))
       => result = Zero
  /\ (/\ phase = "service_scored"
      /\ (normalize_company_name(nameA) = <<>> \/ normalize_company_name(nameB) = <<>>))
       => result = Zero

\* C12: the score of crud/fond.py is symmetric: scoring the pair in the other
\* order gives the same value, whichever rule decides it.
C12_ScoreSymmetric ==
  phase = "scored" => result = calculate_company_similarity(nameB, nameA)

\* the longer name was scored against a shorter one it contains
C12_Witness ==
  /\ phase = "scored"
  /\ matching_rule(normalize_name(nameA), normalize_name(nameB)) = "containment"
  /\ Len(normalize_name(nameA)) > Len(normalize_name(nameB))
  /\ Len(normalize_name(nameB)) > 0
  /\ result # Zero
  /\ result # One

\* one normalised name is a proper, non-empty part of the other
ProperContainment(a, b) ==
  /\ a # b
  /\ a # <<>>
  /\ b # <<>>
  /\ (contains(a, b) \/ contains(b, a))

\* 0.9 * min(len(a), len(b)) / max(len(a), len(b))
ContainmentScore(a, b) == Frac(9 * Min(Len(a), Len(b)), 10 * Max(Len(a), Len(b)))

\* C13: when the two normalised names differ and one is a non-empty part of
\* the other, the score is 0.9 * min(len) / max(len), which is below 0.9, for
\* the scorer of crud/fond.py and for the scorer of the assignment service.
C13_ContainmentScore ==
  /\ (/\ phase = "scored"
      /\ ProperContainment(normalize_name(nameA), normalize_name(nameB)))
       => /\ result = ContainmentScore(normalize_name(nameA), normalize_name(nameB))
          /\ LT(result, <<9, 10>>)
  /\ (/\ phase = "service_scored"
      /\ ProperContainment(normalize_company_name(nameA), normalize_company_name(nameB)))
       => /\ result = ContainmentScore(normalize_company_name(nameA),
                                       normalize_company_name(nameB))
          /\ LT(result, <<9, 10>>)

\* neither name is empty, they differ and neither is a part of the other
WordsCase(a, b) ==
  /\ a # <<>>
  /\ b # <<>>
  /\ a # b
  /\ ~contains(a, b)
  /\ ~contains(b, a)

\* min(1.0, |A & B| / max(|A|, |B|) + 0.1 * (city tokens in A & B)) over the
\* tokens longer than two characters, 0.0 when A or B is empty
WordOverlapScore(a, b) ==
  LET A == {w \in Range(split(a)) : Len(w) > 2}
      B == {w \in Range(split(b)) : Len(w) > 2}
      most == Max(Cardinality(A), Cardinality(B))
      cities == Cardinality((A \cap B) \cap important_words)
  IN IF A = {} \/ B = {} THEN Zero
     ELSE FracMin(One, Frac(10 * Cardinality(A \cap B) + cities * most, 10 * most))

\* C14: when the normalised names are neither equal nor one inside the other,
\* the score is the word overlap over the tokens longer than two characters
\* with a bonus of 0.1 per shared city token, capped at 1, for the scorer of
\* crud/fond.py and for the scorer of the assignment service.
C14_WordOverlap ==
  /\ (phase = "scored" /\ WordsCase(normalize_name(nameA), normalize_name(nameB)))
       => result = WordOverlapScore(normalize_name(nameA), normalize_name(nameB))
  /\ (/\ phase = "service_scored"
      /\ WordsCase(normalize_company_name(nameA), normalize_company_name(nameB)))
       => result = WordOverlapScore(normalize_company_name(nameA),
                                    normalize_company_name(nameB))

\* the whitespace-delimited words of a name, in lower case
RawWords(name) == Range(split(lower(name)))

\* C15: normalize_name of crud/fond.py removes company markers only where they
\* stand as separate words: every word of a name without punctuation that is
\* not a marker is still a word of the normalised name.
C15_NonMarkerWordsSurvive ==
  (/\ phase = "once"
   /\ \A i \in DOMAIN nameA : ~IsPunct(nameA[i]))
    => \A w \in RawWords(nameA) \ CompanyMarkers : w \in Range(split(nameB))

\* C16: "Tractorul Brasov SA" scored against "Tractorul Brasov Heritage SRL"
\* by calculate_company_similarity is above 0.6.
C16_TractorulExample ==
  (/\ phase = "scored"
   /\ nameA = Tractorul_Brasov_SA
   /\ nameB = Tractorul_Brasov_Heritage_SRL)
    => GT(result, <<3, 5>>)

\* the candidates of a ranking: the clients with a company name, less the
\* excluded account
Candidates(exclude) ==
  {i \in ClientIds : users[i].company_name # NoName /\ (exclude # NoOwner => i # exclude)}

\* a ranked list holds exactly the candidates whose score is at least the threshold
RanksAllAtOrAbove(ranked, candidates, score(_), threshold) ==
  /\ \A k \in DOMAIN ranked : GE(ranked[k].similarity, threshold)
  /\ \A i \in candidates : GE(score(i), threshold) => i \in RankedIds(ranked)

\* C17: a ranker returns no candidate below its minimum threshold and every
\* candidate with a company name, other than the excluded one, at or above it:
\* 0.6 for find_potential_owners_for_holder, 0.3 for
\* suggest_assignments_by_similarity with its default limit.
C17_ThresholdConsistency ==
  /\ last.op = "rank"
       => RanksAllAtOrAbove(last.ranked, Candidates(last.old_owner),
            LAMBDA i : similarity_of(fonds[last.fond].holder_name, users[i].company_name),
            <<3, 5>>)
  /\ (last.op = "suggest_assignments" /\ last.fond \in FondIds)
       => RanksAllAtOrAbove(last.ranked, Candidates(NoOwner),
            LAMBDA i : service_similarity_of(fonds[last.fond].company_name,
                                             users[i].company_name),
            <<3, 10>>)

SameScore(x, y) == GE(x, y) /\ GE(y, x)

\* the scores never rise along the list, and of two entries with the same
\* score the one that comes first in the pool is listed first
SortedStable(ranked) ==
  \A k, l \in DOMAIN ranked :
    k < l => /\ GE(ranked[k].similarity, ranked[l].similarity)
             /\ SameScore(ranked[k].similarity, ranked[l].similarity)
                  => ranked[k].user_id < ranked[l].user_id

\* the head of the list is the first candidate of the pool with the highest score
BestIsFirstOfPool(ranked, candidates, score(_)) ==
  ranked # <<>> =>
    /\ ranked[1].user_id \in candidates
    /\ \A i \in candidates :
         /\ GE(ranked[1].similarity, score(i))
         /\ SameScore(score(i), ranked[1].similarity) => ranked[1].user_id <= i

\* C18: the list a ranker returns is in non-increasing order of score, equal
\* scores keep the order of the pool, and the best match is the first account
\* of the pool that has the highest score, for find_potential_owners_for_holder,
\* get_reassignment_suggestions and suggest_assignments_by_similarity.
C18_RankedOrder ==
  /\ (last.op \in {"rank", "suggest"} /\ last.status = "ok")
       => /\ SortedStable(last.ranked)
          /\ BestIsFirstOfPool(last.ranked, Candidates(last.old_owner),
               LAMBDA i : similarity_of(fonds[last.fond].holder_name,
                                        users[i].company_name))
  /\ (last.op \in {"suggest_assignments", "suggest_best"} /\ last.fond \in FondIds)
       => /\ SortedStable(last.ranked)
          /\ BestIsFirstOfPool(last.ranked, Candidates(NoOwner),
               LAMBDA i : service_similarity_of(fonds[last.fond].company_name,
                                                users[i].company_name))

\* three candidates were ranked, two of them with the same score, and the
\* account that leads the list is not the first one of the pool
C18_Witness ==
  /\ last.op = "rank"
  /\ Len(last.ranked) = 3
  /\ SameScore(last.ranked[2].similarity, last.ranked[3].similarity)
  /\ ~SameScore(last.ranked[1].similarity, last.ranked[2].similarity)
  /\ last.ranked[1].user_id # 1

\* C20: find_potential_owners_for_holder, get_reassignment_suggestions and
\* suggest_assignments_by_similarity change no fond (its owner included) and
\* no user record.
C20_RankersReadOnly ==
  [][last'.op \in {"rank", "suggest", "suggest_assignments", "suggest_best"}
       => users' = users /\ fonds' = fonds]_vars

\* suggestions were looked up for a fond owned by one client while another
\* client matches its holder almost exactly, and the fond still has its owner
C20_Witness ==
  /\ last.op = "suggest"
  /\ last.status = "ok"
  /\ last.old_owner # NoOwner
  /\ last.ranked # <<>>
  /\ GE(last.ranked[1].similarity, NearExact)
  /\ last.ranked[1].user_id # last.old_owner
  /\ fonds[last.fond].owner_id = last.old_owner

\* no candidate for a holder name, the excluded account aside, scores 0.6 or more
NoCandidateClears(holder_name, exclude) ==
  \A i \in Candidates(exclude) :
    LT(similarity_of(holder_name, users[i].company_name), <<3, 5>>)

\* C19: when no candidate clears the threshold (the empty pool included), a
\* creation without an explicit owner leaves the fond unowned, an update that
\* changed the holder name keeps the owner of the request or the previous one
\* and lists nothing, a suggestion lookup lists nothing, a bulk scan lists
\* nothing for the fond and keeps its owner, and none of them fails.
C19_NoMatchNoChange ==
  /\ (/\ last.op = "create" /\ last.status = "ok" /\ last.evaluated
      /\ NoCandidateClears(fonds[last.fond].holder_name, NoOwner))
       => Owner(last.fond) = NoOwner
  /\ (/\ last.op = "update" /\ last.evaluated
      /\ NoCandidateClears(fonds[last.fond].holder_name, last.old_owner))
       => /\ last.status = "ok"
          /\ last.ranked = <<>>
          /\ Owner(last.fond) = IF last.owner_set THEN last.owner_id ELSE last.old_owner
  /\ (/\ last.op = "suggest" /\ last.status = "ok"
      /\ NoCandidateClears(fonds[last.fond].holder_name, last.old_owner))
       => /\ last.ranked = <<>>
          /\ Owner(last.fond) = last.old_owner
  /\ (last.op = "bulk" /\ last.status # "forbidden")
       => /\ \A k \in DOMAIN last.scan :
               NoCandidateClears(fonds[last.scan[k].fond].holder_name, last.scan[k].old_owner)
                 => /\ last.scan[k].ranked = <<>>
                    /\ Owner(last.scan[k].fond) = last.scan[k].old_owner
                    /\ last.scan[k].fond \notin Range(last.auto) \cup Range(last.manual)
          /\ (\A f \in FondIds : fonds[f].active =>
                NoCandidateClears(fonds[f].holder_name, Owner(f)))
               => last.status = "ok"

\* what a call of auto_assign_by_similarity(threshold) may do to the fonds
AutoAssignEffect(threshold) ==
  /\ Len(fonds') = Len(fonds)
  /\ \A f \in FondIds :
       /\ fonds[f].owner_id # NoOwner => fonds'[f] = fonds[f]
       /\ fonds'[f].owner_id # fonds[f].owner_id =>
            /\ fonds[f].owner_id = NoOwner
            /\ suggest_assignments_by_similarity(fonds, users, f, 1) # <<>>
            /\ fonds'[f].owner_id =
                 suggest_assignments_by_similarity(fonds, users, f, 1)[1].user_id
            /\ GE(suggest_assignments_by_similarity(fonds, users, f, 1)[1].similarity,
                  threshold)
  /\ Len(last'.auto) + Len(last'.manual) =
       Cardinality({f \in FondIds : fonds[f].owner_id = NoOwner})

\* C30: a call of auto_assign_by_similarity(threshold) changes the owner only
\* of fonds that had none, to the client ranked first for the fond, whose
\* similarity is at least the threshold; the fonds that had an owner stay as
\* they were, and auto_assigned + manual_review_needed = total_processed.
C30_AutoAssignFrame ==
  [][\A t \in Thresholds : AutoAssignBySimilarity(t) => AutoAssignEffect(t)]_vars

\* a call assigned one fond and left alone another that already had an owner
C30_Witness ==
  /\ last.op = "auto_assign"
  /\ last.auto # <<>>
  /\ \E f \in FondIds :
       /\ fonds[f].owner_id # NoOwner
       /\ \A k \in DOMAIN last.scan : last.scan[k].fond # f

\* C29: of two finished bulk_assign_fonds calls for different clients, at most
\* one reports a given fond as successful, and a fond that a call reports as
\* successful is owned by the client of that call.
C29_BulkAssignExclusive ==
  \A c \in DOMAIN calls, d \in DOMAIN calls :
    (/\ c # d
     /\ calls[c].pc = "done"
     /\ calls[d].pc = "done"
     /\ calls[c].client_id # calls[d].client_id)
      => \A f \in Range(calls[c].successful) :
           /\ f \notin Range(calls[d].successful)
           /\ fonds[f].owner_id = calls[c].client_id

(***************************************************************************)
(* C25: a partial update changes only the fields that the request sets:    *)
(* every field the request leaves unset has the same value after           *)
(* update_fond as before, and an update of a fond that does not exist      *)
(* changes no record.                                                      *)
(***************************************************************************)
\* the fields other than owner_id that the request left unset keep their value
UnsetFieldsKept(f) ==
  /\ Len(fonds') = Len(fonds)
  /\ \A g \in FondIds : g # f => fonds'[g] = fonds[g]
  /\ ~last'.company_set => fonds'[f].company_name = fonds[f].company_name
  /\ ~last'.holder_set => fonds'[f].holder_name = fonds[f].holder_name
  /\ ~last'.active_set => fonds'[f].active = fonds[f].active

search_fonds_unlimited(search_term) ==
  search_fonds(fonds, search_term, 0, Len(fonds) + 1)

C24_SearchOnlyActive ==
  /\ last.op = "search" =>
        /\ \A k \in DOMAIN result.fonds :
              result.fonds[k] \in FondIds /\ fonds[result.fonds[k]].active
        /\ (result.skip = 0 /\ result.limit > Len(fonds)) =>
              Len(result.fonds) = search_fonds_count(fonds, result.search_term)
  /\ last.op = "search_count" =>
        result.total_results = Len(search_fonds_unlimited(result.search_term))

\* a search found an active fond while a soft-deleted fond has the same names
C24_Witness ==
  /\ last.op = "search"
  /\ result.fonds # <<>>
  /\ \E f \in FondIds, g \in FondIds :
        /\ f \in Range(result.fonds)
        /\ ~fonds[g].active
        /\ fonds[g].holder_name = fonds[f].holder_name

(***************************************************************************)
(* C21: a client views, edits and deletes only the fonds whose owner_id is *)
(* the client's own id: every request of a client to view, update or       *)
(* delete a fond that another user owns, or that nobody owns, is refused   *)
(* and leaves the fond as it was.                                          *)
(***************************************************************************)
\* the requests that view, update or delete a fond
FondRequests == {"get", "put", "update", "delete"}

C21_ClientOnlyOwnFonds ==
  [][(/\ last'.op \in FondRequests
      /\ last'.user \in UserIds /\ users[last'.user].role = "client"
      /\ get_fond(fonds, last'.fond) # NoFond
      /\ fonds[last'.fond].owner_id # last'.user)
     => fonds' = fonds /\ last'.status = "forbidden"]_vars

\* a client has been refused the deletion of a fond that another client owns
C21_Witness ==
  /\ last.op = "delete" /\ last.status = "forbidden"
  /\ last.user \in UserIds /\ users[last.user].role = "client"
  /\ get_fond(fonds, last.fond) # NoFond
  /\ fonds[last.fond].active
  /\ fonds[last.fond].owner_id \notin {NoOwner, last.user}

(***************************************************************************)
(* C22: audit users only read: every request of an audit user that would   *)
(* create, update or delete a fond or a user, or change the owner of a     *)
(* fond, is refused, and the stored fonds and users stay as they were.     *)
(***************************************************************************)
\* the requests that create, update or delete a fond or a user, or change an
\* owner
WriteRequests ==
  {"create", "put", "update", "delete", "confirm",
   "create_user", "update_user", "delete_user"}

C22_AuditReadOnly ==
  [][(/\ last'.op \in WriteRequests
      /\ last'.user \in UserIds /\ users[last'.user].role = "audit")
     => fonds' = fonds /\ users' = users /\ last'.status = "forbidden"]_vars

\* an audit user has been refused the update of a fond that exists
C22_Witness ==
  /\ last.op = "update" /\ last.status = "forbidden"
  /\ last.user \in UserIds /\ users[last.user].role = "audit"
  /\ get_fond(fonds, last.fond) # NoFond

(***************************************************************************)
(* C26: an update of a client's own fond through update_my_fond never      *)
(* moves the fond to another owner: whatever the request carries (a new    *)
(* holder_name, an owner_id field), owner_id is afterwards still the id of *)
(* the client.                                                             *)
(***************************************************************************)
C26_UpdateMyFondKeepsOwner ==
  [][(/\ last'.op = "update"
      /\ last'.user \in UserIds /\ users[last'.user].role = "client"
      /\ get_fond(fonds, last'.fond) # NoFond
      /\ fonds[last'.fond].owner_id = last'.user)
     => fonds'[last'.fond].owner_id = last'.user]_vars

(***************************************************************************)
(* C27: whatever fonds and users are created, updated, assigned, migrated  *)
(* and deleted, the owner_id of every fond is null or the id of a user     *)
(* that exists and has the role client.                                    *)
(***************************************************************************)
C27_OwnersAreClients ==
  \A f \in FondIds :
    \/ fonds[f].owner_id = NoOwner
    \/ /\ fonds[f].owner_id \in UserIds
       /\ users[fonds[f].owner_id].role = "client"

(***************************************************************************)
(* C28: a system that has an administrator keeps one through every update, *)
(* role migration and deletion of users: the request that would delete or  *)
(* demote the last administrator is refused and leaves the user as it was. *)
(***************************************************************************)
C28_LastAdminStays ==
  [][/\ count_users_by_role(users, "admin") >= 1 =>
          count_users_by_role(users', "admin") >= 1
     /\ last'.status = "last_admin" =>
          /\ users' = users
          /\ users[last'.fond].role = "admin"
          /\ count_users_by_role(users, "admin") = 1]_vars

\* the only administrator asked for another role and has been refused
C28_Witness ==
  /\ last.op = "update_user" /\ last.status = "last_admin"
  /\ last.user = last.fond
  /\ users[last.user].role = "admin"
  /\ count_users_by_role(users, "admin") = 1

====
